---------------------------- MODULE Spec2Model ----------------------------
(***************************************************************************)
(* A model of rpmalloc.c: size classes, spans, pages, blocks, the          *)
(* per-thread heaps with their local free lists, the lock-free thread-free *)
(* list of a page, the heap queue and its spin lock, and the public        *)
(* entry points.                                                           *)
(*                                                                         *)
(* Addresses and sizes are the program's (bytes).  size_t and uintptr_t    *)
(* count modulo WORD_MOD; the table's block_count and a span's page_count are *)
(* cut to MaxBlocks and MaxPages.                                          *)
(***************************************************************************)
EXTENDS Integers, Sequences, FiniteSets, TLC

(***************************************************************************)
(* Bounds of the model                                                     *)
(***************************************************************************)
\* Threads are 1..NThreads (a thread id is never 0).
NThreads == 3
\* Threads that call the allocator in the program of Spec.
NCallers == 2
\* Address slots of SPAN_SIZE bytes a map can return (slot k is at k * SPAN_SIZE).
MaxSpans == 2
\* A span's page_count is cut to MaxPages.
MaxPages == 1
\* The page_count of a span of large pages is cut to MaxPagesLarge.
MaxPagesLarge == 2
\* Pointers the program of SpecFreed holds at one time.
MaxLiveFreed == 3
\* Operations the program of SpecFreed starts.
MaxStartedFreed == 8
\* Pointers the program of SpecSpans holds at one time.
MaxLiveSpans == 3
\* A size class's block_count is cut to MaxBlocks.
MaxBlocks == 2
\* Pointers the program holds at one time.
MaxLive == 3
\* Mappings the OS grants the process at most.
MaxMaps == 2
\* Pointers a sequential program holds at one time.
MaxLiveSeq == 1
\* Mappings the OS grants a sequential program at most.
MaxMapsSeq == 3
\* Steps a run goes on after a racing free has lost an update.
MaxAfter == 4
\* block_count cut of the largest tiny class, which the reuse program requests:
\* its list of fresh blocks must not fill the page.
MaxBlocksLinked == 9
\* Allocations the reuse program keeps, in a run, besides the one it allocates and frees.
MaxHeld == 1
\* Pointers the program of SpecLife holds at one time.
MaxLiveLife == 2
\* Operations the threads of SpecLoops start altogether.
MaxStarted == 7
\* Operations the threads of SpecLoopsFair start altogether.
MaxStartedFair == 6
\* Pointers the threads of SpecLoops hold at one time.
MaxLiveLoops == 2
\* Mappings the OS grants the threads of SpecLoops at most.
MaxMapsLoops == 4
\* Operations the threads of SpecReclaim start altogether.
MaxStartedReclaim == 8

\* Blocks that are live at a time in SpecStarve, and operations of the
\* threads that free what the owner filled.
MaxLiveStarve == 4
MaxStartedStarve == 3

\* block_count cut of the size class of 3072 bytes, which the threads of
\* SpecLoops request.
MaxBlocksLoops == 3

(***************************************************************************)
(* Built in size configuration (rpmalloc.c 135-159)                        *)
(***************************************************************************)
PAGE_HEADER_SIZE == 128
SPAN_HEADER_SIZE == PAGE_HEADER_SIZE
SMALL_GRANULARITY == 32
SMALL_BLOCK_SIZE_LIMIT == 4 * 1024
MEDIUM_BLOCK_SIZE_LIMIT == 256 * 1024
LARGE_BLOCK_SIZE_LIMIT == 8 * 1024 * 1024
SMALL_SIZE_CLASS_COUNT == 29
MEDIUM_SIZE_CLASS_COUNT == 24
LARGE_SIZE_CLASS_COUNT == 20
SIZE_CLASS_COUNT == SMALL_SIZE_CLASS_COUNT + MEDIUM_SIZE_CLASS_COUNT + LARGE_SIZE_CLASS_COUNT
SMALL_PAGE_SIZE_SHIFT == 16
SMALL_PAGE_SIZE == 2 ^ SMALL_PAGE_SIZE_SHIFT
MEDIUM_PAGE_SIZE_SHIFT == 22
MEDIUM_PAGE_SIZE == 2 ^ MEDIUM_PAGE_SIZE_SHIFT
LARGE_PAGE_SIZE_SHIFT == 26
LARGE_PAGE_SIZE == 2 ^ LARGE_PAGE_SIZE_SHIFT
SPAN_SIZE == 256 * 1024 * 1024
MAX_ALIGNMENT == 256 * 1024

\* page_type_t
PAGE_SMALL == 0
PAGE_MEDIUM == 1
PAGE_LARGE == 2
PAGE_HUGE == 3

\* Reallocation flags
RPMALLOC_NO_PRESERVE == 1
RPMALLOC_GROW_OR_FAIL == 2

\* errno values
EINVAL == 22
ENOMEM == 12

\* The modulus of size_t and uintptr_t: the model's address space holds four
\* regions of SPAN_SIZE bytes (2^30 bytes), so that every sum fits the checker's integers.
WORD_MOD == 4 * SPAN_SIZE
\* os_page_size as rpmalloc_initialize reads it from the OS.
os_page_size == 4096

Min(a, b) == IF a < b THEN a ELSE b
Max(a, b) == IF a > b THEN a ELSE b
\* Unsigned arithmetic on size_t.
Wrap(x) == x % WORD_MOD
\* a & ~(m - 1) and a & (m - 1) for a power of two m.
AlignDown(a, m) == a - (a % m)
LowBits(a, m) == a % m
\* a & b, bit by bit
RECURSIVE BitAnd(_, _)
BitAnd(a, b) ==
  IF a = 0 \/ b = 0 THEN 0
  ELSE (a % 2) * (b % 2) + 2 * BitAnd(a \div 2, b \div 2)

(***************************************************************************)
(* The size class table (rpmalloc.c 421-439): the multiplier n of          *)
(* SCLASS(n), MCLASS(n), LCLASS(n) of each class, class 0 first.           *)
(***************************************************************************)
ClassMult ==
  << 1, 1, 2, 3, 4, 5, 6,
     7, 8, 9, 10, 11, 12, 13,
     14, 15, 16, 20, 24, 28, 32,
     40, 48, 56, 64, 80, 96, 112,
     128, 160, 192, 224, 256, 320, 384,
     448, 512, 640, 768, 896, 1024, 1280,
     1536, 1792, 2048, 2560, 3072, 3584, 4096,
     5120, 6144, 7168, 8192, 10240, 12288, 14336,
     16384, 20480, 24576, 28672, 32768, 40960, 49152,
     57344, 65536, 81920, 98304, 114688, 131072, 163840,
     196608, 229376, 262144 >>

get_page_type(size_class) ==
  IF size_class < SMALL_SIZE_CLASS_COUNT THEN PAGE_SMALL
  ELSE IF size_class < SMALL_SIZE_CLASS_COUNT + MEDIUM_SIZE_CLASS_COUNT THEN PAGE_MEDIUM
  ELSE IF size_class < SIZE_CLASS_COUNT THEN PAGE_LARGE
  ELSE PAGE_HUGE

PageSizeOfType(page_type) ==
  IF page_type = PAGE_SMALL THEN SMALL_PAGE_SIZE
  ELSE IF page_type = PAGE_MEDIUM THEN MEDIUM_PAGE_SIZE
  ELSE LARGE_PAGE_SIZE

PageShiftOfType(page_type) ==
  IF page_type = PAGE_SMALL THEN SMALL_PAGE_SIZE_SHIFT
  ELSE IF page_type = PAGE_MEDIUM THEN MEDIUM_PAGE_SIZE_SHIFT
  ELSE LARGE_PAGE_SIZE_SHIFT

\* global_size_class[c].block_size
ClassBlockSize(c) == ClassMult[c + 1] * SMALL_GRANULARITY
\* global_size_class[c].block_count as the table has it
ClassBlockCountFull(c) ==
  (PageSizeOfType(get_page_type(c)) - PAGE_HEADER_SIZE) \div ClassBlockSize(c)
\* global_size_class[c].block_count, cut to MaxBlocks
ClassBlockCount(c) ==
  Min(ClassBlockCountFull(c),
      IF c = 16 THEN MaxBlocksLinked ELSE IF c = 26 THEN MaxBlocksLoops ELSE MaxBlocks)

get_size_class_tiny(size) ==
  (size + (SMALL_GRANULARITY - 1)) \div SMALL_GRANULARITY

\* 63 - clz(x): the position of the most significant set bit of x > 0
RECURSIVE MostSignificantBit(_)
MostSignificantBit(x) == IF x <= 1 THEN 0 ELSE 1 + MostSignificantBit(x \div 2)

get_size_class(size) ==
  LET minblock_count == Wrap(size + (SMALL_GRANULARITY - 1)) \div SMALL_GRANULARITY
  IN IF size <= SMALL_GRANULARITY * 16
       THEN (IF minblock_count # 0 THEN minblock_count ELSE 1)
       ELSE LET m == Wrap(minblock_count - 1)
                most_significant_bit == MostSignificantBit(m)
                subclass_bits == (m \div (2 ^ (most_significant_bit - 2))) % 4
            IN (most_significant_bit * 4) + subclass_bits + 1

get_page_aligned_size(size) ==
  LET unalign == size % os_page_size
  IN IF unalign # 0 THEN Wrap(size + os_page_size - unalign) ELSE size


(***************************************************************************)
(* State                                                                   *)
(***************************************************************************)
VARIABLES
  page,     \* page headers (page_t), by page address
  span,     \* span headers (span_t past its embedded page_t), by address slot
  heap,     \* heaps (heap_t); heap FALLBACK is global_heap_fallback
  bnext,    \* block_t.next of the blocks that are on a free list, by block address
  dirty,    \* per page address: the bytes [PAGE_HEADER_SIZE, dirty) may be non-zero
  data,     \* per live pointer: what the program stored there
  tls,      \* global_thread_heap of each thread
  queue,    \* global_heap_queue
  lock,     \* global_heap_lock
  errno,    \* errno of each thread
  live,     \* the pointers the program holds (returned and not yet freed)
  pc,       \* where each thread is inside an operation
  maps_left,    \* how many more mappings the OS grants the process
  global_memory_interface,  \* the interface in use, and the structures it may point at
  started,  \* how many operations the program has started (where it counts them)
  after,    \* steps taken since a racing free lost an update (0: none was lost)
  ev        \* the last operation that returned, and what it returned

vars == << page, span, heap, bnext, dirty, data, tls, queue, lock, errno, live, pc, maps_left,
          global_memory_interface, started, after, ev >>

NULL == 0
Threads == 1 .. NThreads
HeapIds == 1 .. NThreads
\* &global_heap_fallback
FALLBACK == NThreads + 1
SpanSlots == 1 .. MaxSpans
PageTypes == {PAGE_SMALL, PAGE_MEDIUM, PAGE_LARGE}
PageAddrs ==
  { k * SPAN_SIZE + i * PageSizeOfType(ty) : k \in SpanSlots, i \in 0 .. (MaxPages - 1), ty \in PageTypes }
    \cup { k * SPAN_SIZE + i * LARGE_PAGE_SIZE : k \in SpanSlots, i \in 0 .. (MaxPagesLarge - 1) }

\* A function with default 0: only the non-zero entries are kept.
Get(f, k) == IF k \in DOMAIN f THEN f[k] ELSE 0
Put(f, k, v) ==
  IF v = 0 THEN [x \in (DOMAIN f) \ {k} |-> f[x]]
  ELSE [x \in (DOMAIN f) \cup {k} |-> IF x = k THEN v ELSE f[x]]
Drop(f, k) == [x \in (DOMAIN f) \ {k} |-> f[x]]
\* block->next = v, for a block that goes on a free list
SetNext(f, b, v) == [x \in (DOMAIN f) \cup {b} |-> IF x = b THEN v ELSE f[x]]
EmptyMap == [x \in {} |-> 0]

\* The thread_free word: block index in the low 32 bits, list count in the high 32 bits.
TF0 == [idx |-> 0, cnt |-> 0]

\* A page header in freshly mapped (zero) memory (struct page_t, rpmalloc.c 306-343)
ZeroPage ==
  [ size_class |-> 0, block_size |-> 0, block_count |-> 0, block_initialized |-> 0,
    block_used |-> 0, page_type |-> 0, is_full |-> 0, is_free |-> 0, is_zero |-> 0,
    is_decommitted |-> 0, has_aligned_block |-> 0, local_free_count |-> 0,
    local_free |-> NULL, owner_thread |-> 0, heap |-> NULL, next |-> NULL, prev |-> NULL,
    thread_free |-> TF0, pushed |-> {} ]

\* A span header in freshly mapped memory (struct span_t, rpmalloc.c 346-367);
\* mapped tells whether the address slot is mapped at all, raw and rlen
\* are the address and the length of the region the OS reserved for it.
ZeroSpan ==
  [ mapped |-> FALSE, raw |-> 0, rlen |-> 0,
    page_initialized |-> 0, page_count |-> 0, page_size |-> 0,
    page_size_shift |-> 0, page_type |-> 0, offset |-> 0, mapped_size |-> 0,
    next |-> NULL, prev |-> NULL ]

\* A heap after memset (struct heap_t, rpmalloc.c 370-395)
ZeroHeap ==
  [ mapped |-> FALSE, owner_thread |-> 0, local_free |-> EmptyMap, page_available |-> EmptyMap,
    page_free |-> [ty \in PageTypes |-> NULL], page_free_thread |-> [ty \in PageTypes |-> NULL],
    span_partial |-> [ty \in PageTypes |-> NULL], span_used |-> [ty \in PageTypes |-> NULL],
    next |-> NULL, offset |-> 0, mapped_size |-> 0 ]

Idle == [st |-> "idle"]
\* What the last map and unmap of an operation asked of the OS: the region
\* reserved (raw, rlen), the region released (ua, ul), and whether the region
\* released is one the OS had reserved.
NoOs == [raw |-> 0, rlen |-> 0, ua |-> 0, ul |-> 0, exact |-> TRUE]
\* The arguments of a call
Arg(size, align, flags, ptr) ==
  [size |-> size, align |-> align, flags |-> flags, ptr |-> ptr, num |-> 1, out |-> 1]
NoEv ==
  [ op |-> "none", t |-> 0, arg |-> Arg(0, 0, 0, 0), r |-> 0, usable |-> 0, zeroed |-> FALSE,
    dup |-> FALSE, lost |-> FALSE, foreign |-> {}, failed |-> FALSE, pg |-> "none",
    same |-> TRUE, crash |-> FALSE, code |-> 0,
    mapped |-> 0, unmapped |-> 0, mo |-> 0, ms |-> 0, os |-> NoOs, flag |-> 0 ]

\* The state an operation works on: the variables, and the operation's own
\* context (me: get_thread_id(); r: the value returned; off: how far below a
\* multiple of SPAN_SIZE the OS places a region it reserves; and what the
\* operation did, for the claims).
St(t, off) ==
  [ page |-> page, span |-> span, heap |-> heap, bnext |-> bnext, dirty |-> dirty,
    data |-> data, tls |-> tls, queue |-> queue, lock |-> lock, errno |-> errno,
    maps_left |-> maps_left, mi |-> global_memory_interface, started |-> started,
    me |-> t, r |-> NULL, off |-> off,
    pend |-> Idle, zeroed |-> FALSE, src |-> "none", pg |-> "none", foreign |-> {}, iszero |-> 0, mo |-> 0, ms |-> 0,
    mapped |-> 0, unmapped |-> 0, failed |-> FALSE, crash |-> FALSE, code |-> 0, os |-> NoOs,
    flag |-> 0 ]

Commit(s) ==
  /\ page' = s.page
  /\ span' = s.span
  /\ heap' = s.heap
  /\ bnext' = s.bnext
  /\ dirty' = s.dirty
  /\ data' = s.data
  /\ tls' = s.tls
  /\ queue' = s.queue
  /\ lock' = s.lock
  /\ errno' = s.errno
  /\ maps_left' = s.maps_left
  /\ global_memory_interface' = s.mi
  /\ started' = s.started

Ret(s, v) == [s EXCEPT !.r = v]

\* A write by thread s.me to the non-atomic state of page p or of its heap:
\* remembers whether the heap was bound to another thread at that time.
Touch(s, p, what) ==
  IF /\ s.tls[s.me] # s.page[p].heap
     /\ \E u \in Threads \ {s.me} : s.tls[u] = s.page[p].heap
    THEN [s EXCEPT !.foreign = @ \cup {what}] ELSE s


(***************************************************************************)
(* Page interface (rpmalloc.c 737-1022)                                    *)
(***************************************************************************)
Crash(s) == [s EXCEPT !.crash = TRUE]

\* rpmalloc_interface_t: which function each member points at
NoInterface ==
  [memory_map |-> "null", memory_commit |-> "null", memory_decommit |-> "null", memory_unmap |-> "null"]
OsInterface ==
  [memory_map |-> "os", memory_commit |-> "os", memory_decommit |-> "os", memory_unmap |-> "os"]
\* *global_memory_interface
Interface(s) == IF s.mi.ptr = "default" THEN s.mi.dflt ELSE s.mi.user
\* A call through global_memory_interface->member jumps to address 0.
Missing(s, member) == s.mi.ptr = "null" \/ Interface(s)[member] = "null"

\* The argument of rpmalloc_initialize: a null pointer, or a structure
NoArgument == [given |-> FALSE, ops |-> NoInterface]

rpmalloc_initialize(s, memory_interface) ==
  IF s.mi.ptr # "null" THEN s
  ELSE LET ops == IF memory_interface.given THEN memory_interface.ops ELSE s.mi.dflt
           set == IF ops.memory_map = "null" \/ ops.memory_unmap = "null" THEN OsInterface ELSE ops
       IN IF memory_interface.given
            THEN [s EXCEPT !.mi = [ptr |-> "user", dflt |-> @.dflt, user |-> set]]
            ELSE [s EXCEPT !.mi = [ptr |-> "default", dflt |-> set, user |-> @.user]]

rpmalloc_finalize(s) == [s EXCEPT !.mi.ptr = "null"]

page_get_span(p) == AlignDown(p, SPAN_SIZE)
SlotOf(addr) == addr \div SPAN_SIZE

page_get_size(s, p) ==
  IF s.page[p].page_type = PAGE_SMALL THEN SMALL_PAGE_SIZE
  ELSE IF s.page[p].page_type = PAGE_MEDIUM THEN MEDIUM_PAGE_SIZE
  ELSE IF s.page[p].page_type = PAGE_LARGE THEN LARGE_PAGE_SIZE
  ELSE s.span[SlotOf(p)].page_size

page_block_start(p) == p + PAGE_HEADER_SIZE

page_block(s, p, block_index) ==
  p + PAGE_HEADER_SIZE + (s.page[p].block_size * block_index)

page_block_index(s, p, block) ==
  (block - page_block_start(p)) \div s.page[p].block_size

\* The block the token's index names (0 for an empty list); the count is token.cnt.
page_block_from_thread_free_list(s, p, token) ==
  IF token.cnt # 0 THEN page_block(s, p, token.idx) ELSE NULL

page_block_to_thread_free_list(block_index, list_count) ==
  [idx |-> block_index, cnt |-> list_count]

\* page_block_realign that leaves the pointer where it is
page_block_realign_kept(s, p, block) == block

page_block_realign(s, p, block) ==
  LET block_offset == block - page_block_start(p)
  IN block - (block_offset % s.page[p].block_size)

\* block->next.  A block that is on no free list holds the program's data: the
\* read gives no pointer the allocator ever stored, and the run ends there.
NextOf(s, block) == IF block \in DOMAIN s.bnext THEN s.bnext[block] ELSE NULL
Wild(s, block) == IF block \in DOMAIN s.bnext THEN s ELSE Crash(s)

page_get_local_free_block(s, p) ==
  LET block == s.page[p].local_free
  IN IF block # NULL
       THEN Ret([Wild(s, block) EXCEPT !.page[p].local_free = NextOf(s, block),
                          !.page[p].local_free_count = @ - 1,
                          !.page[p].block_used = @ + 1,
                          !.bnext = Drop(@, block)], block)
       ELSE Ret(s, NULL)

page_decommit_memory_pages(s, p) ==
  IF Missing(s, "memory_decommit") THEN Crash(s)
  ELSE [s EXCEPT !.page[p].is_decommitted = 1]

\* The OS gives zero pages back for the decommitted range [os_page_size, page size).
page_commit_memory_pages(s, p) ==
  IF Missing(s, "memory_commit") THEN Crash(s)
  ELSE [s EXCEPT !.page[p].is_decommitted = 0,
                 !.dirty[p] = Min(@, os_page_size)]

\* page_available_to_free without the decommit of lines 832-834: the previous
\* head of page_free stays committed behind the new head.
page_available_to_free_warm(s, p) ==
  LET pg == s.page[p]
      h == pg.heap
      s1 == IF Get(s.heap[h].page_available, pg.size_class) = p
              THEN [s EXCEPT !.heap[h].page_available = Put(@, pg.size_class, pg.next)]
              ELSE IF pg.prev = NULL THEN Crash(s)
              ELSE LET a == [s EXCEPT !.page[pg.prev].next = pg.next]
                   IN IF pg.next # NULL THEN [a EXCEPT !.page[pg.next].prev = pg.prev] ELSE a
      head == s1.heap[h].page_free[pg.page_type]
  IN [s1 EXCEPT !.page[p].is_free = 1,
                !.page[p].next = head,
                !.heap[h].page_free[pg.page_type] = p]

page_available_to_free(s, p) ==
  LET pg == s.page[p]
      h == pg.heap
      s1 == IF Get(s.heap[h].page_available, pg.size_class) = p
              THEN [s EXCEPT !.heap[h].page_available = Put(@, pg.size_class, pg.next)]
              ELSE IF pg.prev = NULL THEN Crash(s)
              ELSE LET a == [s EXCEPT !.page[pg.prev].next = pg.next]
                   IN IF pg.next # NULL THEN [a EXCEPT !.page[pg.next].prev = pg.prev] ELSE a
      head == s1.heap[h].page_free[pg.page_type]
      s2 == [s1 EXCEPT !.page[p].is_free = 1,
                       !.page[p].next = head,
                       !.heap[h].page_free[pg.page_type] = p]
  IN \* Keep one page committed
     IF head # NULL THEN page_decommit_memory_pages(s2, head) ELSE s2

\* page_full_to_available without the write of line 843: the page goes back
\* to the available list and keeps its full mark.
page_full_to_available_marked(s, p) ==
  LET pg == s.page[p]
      h == pg.heap
      head == Get(s.heap[h].page_available, pg.size_class)
      s1 == [s EXCEPT !.page[p].next = head]
      s2 == IF head # NULL THEN [s1 EXCEPT !.page[head].prev = p] ELSE s1
  IN [s2 EXCEPT !.heap[h].page_available = Put(@, pg.size_class, p)]

page_full_to_available(s, p) ==
  LET pg == s.page[p]
      h == pg.heap
      head == Get(s.heap[h].page_available, pg.size_class)
      s1 == [s EXCEPT !.page[p].next = head]
      s2 == IF head # NULL THEN [s1 EXCEPT !.page[head].prev = p] ELSE s1
  IN [s2 EXCEPT !.heap[h].page_available = Put(@, pg.size_class, p),
                !.page[p].is_full = 0]

\* seen is the value the thread read from page->local_free.
page_put_local_free_block_seen(s, p, block, seen) ==
  LET s0 == Touch(s, p, "local_free")
      s1 == [s0 EXCEPT !.bnext = SetNext(@, block, seen),
                       !.page[p].local_free = block,
                       !.page[p].local_free_count = @ + 1,
                       !.page[p].block_used = @ - 1]
  IN IF s1.page[p].block_used = 0 THEN page_available_to_free(s1, p)
     ELSE IF s1.page[p].is_full # 0 THEN page_full_to_available(s1, p)
     ELSE s1

page_put_local_free_block(s, p, block) ==
  page_put_local_free_block_seen(s, p, block, s.page[p].local_free)

\* rpmalloc.c 866-872: the exchange of thread_free for 0 succeeded
page_adopt_thread_free_exchanged(s, p, thread_free) ==
  [s EXCEPT !.page[p].thread_free = TF0,
            !.page[p].pushed = {},
            !.page[p].local_free_count = thread_free.cnt,
            !.page[p].local_free = page_block_from_thread_free_list(s, p, thread_free),
            !.page[p].block_used = @ - thread_free.cnt]

\* The load and the compare-and-swap loop, taken at the exchange that succeeds.
page_adopt_thread_free_block_list(s, p) ==
  LET thread_free == s.page[p].thread_free
  IN IF thread_free # TF0
       THEN page_adopt_thread_free_exchanged(s, p, thread_free)
       ELSE s

\* rpmalloc.c 879-885, on the page after the adoption
page_get_thread_free_block_pop(s, p) ==
  LET block == s.page[p].local_free
  IN IF block # NULL
       THEN Ret([Wild(s, block) EXCEPT !.page[p].local_free = NextOf(s, block),
                                       !.page[p].local_free_count = @ - 1,
                                       !.page[p].block_used = @ + 1,
                                       !.bnext = Drop(@, block)], block)
       ELSE Ret(s, NULL)

page_get_thread_free_block(s, p) ==
  page_get_thread_free_block_pop(page_adopt_thread_free_block_list(s, p), p)

\* rpmalloc.c 890-900, taken at the compare-and-swap that succeeds; r is list_size.
page_put_thread_free_push(s, p, block) ==
  LET prev_thread_free == s.page[p].thread_free
      block_index == page_block_index(s, p, block)
      list_size == prev_thread_free.cnt + 1
  IN Ret([s EXCEPT !.bnext = SetNext(@, block, page_block_from_thread_free_list(s, p, prev_thread_free)),
                   !.page[p].thread_free = page_block_to_thread_free_list(block_index, list_size),
                   !.page[p].pushed = @ \cup {block}],
         list_size)

\* rpmalloc.c 901-904: whether the push that made the list list_size long cleans the page up.
page_put_thread_free_cleans(s, p, list_size) ==
  /\ ~ (list_size = 1 /\ s.page[p].is_full # 0)
  /\ list_size >= s.page[p].block_count

\* rpmalloc.c 905-917: decommit, and the push on page_free_thread taken at the
\* compare-and-swap that succeeds.
page_put_thread_free_reclaim(s, p) ==
  LET s1 == page_decommit_memory_pages(Touch(s, p, "reclaim"), p)
      h == s1.page[p].heap
      ty == s1.page[p].page_type
      prev_head == s1.heap[h].page_free_thread[ty]
  IN [s1 EXCEPT !.page[p].next = prev_head,
                !.heap[h].page_free_thread[ty] = p]

page_push_local_free_to_heap(s, p) ==
  LET pg == s.page[p]
  IN IF pg.local_free # NULL
       THEN [s EXCEPT !.heap[pg.heap].local_free = Put(@, pg.size_class, pg.local_free),
                      !.page[p].block_used = @ + pg.local_free_count,
                      !.page[p].local_free = NULL,
                      !.page[p].local_free_count = 0]
       ELSE s

page_initialize_blocks(s, p) ==
  LET pg == s.page[p]
      block == page_block(s, p, pg.block_initialized)
      bs == pg.block_size
      s1 == [s EXCEPT !.page[p].block_initialized = @ + 1,
                      !.page[p].block_used = @ + 1,
                      !.zeroed = (block - p >= s.dirty[p])]
      memory_page_next == AlignDown(block, os_page_size) + os_page_size
      max_list_count == pg.block_count - (pg.block_initialized + 1)
      \* the blocks block + k * bs, k >= 1, that start below memory_page_next
      list_count ==
        IF pg.page_type = PAGE_SMALL /\ bs < os_page_size \div 2
          THEN Max(0, Min((memory_page_next - block - 1) \div bs, max_list_count))
          ELSE 0
      linked == { block + k * bs : k \in 1 .. list_count }
      s2 == IF list_count # 0
              THEN [s1 EXCEPT !.bnext = [x \in (DOMAIN @) \cup linked |->
                                           IF x \in linked
                                             THEN (IF x = block + list_count * bs THEN NULL ELSE x + bs)
                                             ELSE @[x]],
                              !.page[p].local_free = block + bs,
                              !.page[p].block_initialized = @ + list_count,
                              !.page[p].local_free_count = list_count]
              ELSE s1
  IN Ret([s2 EXCEPT !.dirty[p] =
                      Max(@, PAGE_HEADER_SIZE + s2.page[p].block_initialized * bs)], block)

\* rpmalloc.c 966-978: the block, from the page's local free list, else from the
\* adopted thread-free list, else a fresh one; then the page's local free list
\* goes to the heap.  r is the block, iszero the local is_zero.
\* rpmalloc.c 971-974: no block on either list, a fresh one
page_allocate_block_fresh(b, p) ==
  IF b.r # NULL
    THEN [b EXCEPT !.src = "thread", !.iszero = 0, !.zeroed = FALSE]
    ELSE [page_initialize_blocks(b, p) EXCEPT !.src = "fresh", !.iszero = b.page[p].is_zero]

\* rpmalloc.c 968-975: no block on the local free list
page_allocate_block_thread(a, p) ==
  IF a.r # NULL
    THEN [a EXCEPT !.src = "local", !.iszero = 0, !.zeroed = FALSE]
    ELSE page_allocate_block_fresh(page_get_thread_free_block(a, p), p)

\* rpmalloc.c 966-978: the block, from the page's local free list, else from the
\* adopted thread-free list, else a fresh one; then the page's local free list
\* goes to the heap.  r is the block, iszero the local is_zero.
page_allocate_block_take(s, p) ==
  page_push_local_free_to_heap(
    page_allocate_block_thread(page_get_local_free_block(Touch(s, p, "allocate"), p), p), p)

\* rpmalloc.c 980-1002
\* rpmalloc.c 983-999
page_allocate_block_full(s, p) ==
  LET pg == s.page[p]
      h == pg.heap
  IN IF pg.block_used = pg.block_count
       THEN [ (IF pg.is_full # 0 THEN s
               ELSE IF Get(s.heap[h].page_available, pg.size_class) = p
                 THEN [s EXCEPT !.heap[h].page_available = Put(@, pg.size_class, pg.next)]
               ELSE IF pg.prev = NULL THEN Crash(s)
               ELSE IF pg.next # NULL
                 THEN [s EXCEPT !.page[pg.prev].next = pg.next, !.page[pg.next].prev = pg.prev]
               ELSE [s EXCEPT !.page[pg.prev].next = pg.next])
              EXCEPT !.page[p].is_full = 1, !.page[p].is_zero = 0 ]
       ELSE s

\* rpmalloc.c 983-1002, after the adoption of line 981
page_allocate_block_done(s, p, block, is_zero, zero) ==
  [ page_allocate_block_full(s, p)
    EXCEPT !.r = block,
           !.zeroed = IF zero # 0 /\ is_zero = 0 /\ block # NULL THEN TRUE ELSE @ ]

\* rpmalloc.c 980-1002
page_allocate_block_finish(s, p, block, is_zero, zero) ==
  page_allocate_block_done(
    IF s.page[p].block_used = s.page[p].block_count
      THEN page_adopt_thread_free_block_list(s, p) ELSE s, p, block, is_zero, zero)

\* Whether page_allocate_block reads the thread-free word a second time (line 981).
page_allocate_block_adopts_again(s, p) ==
  s.page[p].block_used = s.page[p].block_count

page_allocate_block_rest(a, p, zero) ==
  page_allocate_block_finish(a, p, a.r, a.iszero, zero)

page_allocate_block(s, p, zero) ==
  page_allocate_block_rest(page_allocate_block_take(s, p), p, zero)

\* rpmalloc.c 888-900: r is list_size, the page and list_size wait in pend for
\* the rest of the function (901-917).
page_put_thread_free_block(s, p, block) ==
  LET a == page_put_thread_free_push(s, p, block)
  IN [a EXCEPT !.pend = [st |-> "thread_free", page |-> p, list_size |-> a.r]]

\* rpmalloc.c 901-917
page_put_thread_free_block_rest(s, p, list_size) ==
  IF page_put_thread_free_cleans(s, p, list_size)
    THEN page_put_thread_free_reclaim(s, p)
    ELSE s

page_deallocate_block(s, p, block) ==
  LET calling_thread == s.me
      is_local == (s.page[p].owner_thread = 0) \/ (s.page[p].owner_thread = calling_thread)
      blk == IF s.page[p].has_aligned_block # 0 THEN page_block_realign(s, p, block) ELSE block
  IN IF is_local
       THEN Ret(page_put_local_free_block(s, p, blk), NULL)
       ELSE page_put_thread_free_block(s, p, blk)


(***************************************************************************)
(* OS entry points (rpmalloc.c 603-729).  The address space is the slots   *)
(* of SPAN_SIZE bytes.  The OS reserves a region of at most two slots'     *)
(* length that starts s.off bytes below the lowest unmapped slot k; it     *)
(* refuses when it grants no more (maps_left is 0), when no slot is left   *)
(* or when the length asked for is 0 or too long.  A heap is mapped        *)
(* outside the slots and named by its number.                              *)
(***************************************************************************)
FreeSlots(s) == { k \in SpanSlots : ~ s.span[k].mapped }
FreeHeaps(s) == { h \in HeapIds : ~ s.heap[h].mapped }
Lowest(S) == CHOOSE x \in S : \A y \in S : x <= y

\* (int32_t)x of a value below 2^31, which every size_t of the model is
Int32(x) == IF x \div 2 >= 2 ^ 30 THEN x - 2 ^ 30 - 2 ^ 30 - 2 ^ 30 - 2 ^ 30 ELSE x

\* mmap(0, map_size, ...) is refused
MmapRefused(s, map_size) ==
  s.maps_left = 0 \/ FreeSlots(s) = {} \/ map_size = 0 \/ map_size > 2 * SPAN_SIZE

\* r is the aligned address, mo the padding (*offset), ms map_size (*mapped_size).
\* A refused mmap leaves ENOMEM in the caller's errno (the POSIX builds).
os_mmap(s, size, alignment) ==
  LET map_size == Wrap(size + alignment)
      k == Lowest(FreeSlots(s))
      ptr == k * SPAN_SIZE - s.off
      low == IF alignment # 0 THEN BitAnd(ptr, alignment - 1) ELSE 0
      padding == IF low # 0 THEN alignment - low ELSE 0
  IN IF MmapRefused(s, map_size)
       THEN [s EXCEPT !.r = NULL, !.mo = 0, !.ms = 0, !.failed = TRUE, !.errno[s.me] = ENOMEM]
       ELSE [s EXCEPT !.r = ptr + padding,
                      !.mo = padding,
                      !.ms = map_size,
                      !.span[k] = [ZeroSpan EXCEPT !.mapped = TRUE, !.raw = ptr, !.rlen = map_size],
                      !.dirty = [a \in DOMAIN @ |-> IF SlotOf(a) = k THEN PAGE_HEADER_SIZE ELSE @[a]],
                      !.maps_left = @ - 1,
                      !.mapped = @ + 1,
                      !.os.raw = ptr, !.os.rlen = map_size]

\* The map of a heap_t (alignment 0): r is the heap.
os_mmap_heap(s, size) ==
  IF s.maps_left = 0 \/ FreeHeaps(s) = {}
    THEN [s EXCEPT !.r = NULL, !.mo = 0, !.ms = 0, !.failed = TRUE, !.errno[s.me] = ENOMEM]
    ELSE [s EXCEPT !.r = Lowest(FreeHeaps(s)), !.mo = 0, !.ms = size,
                   !.maps_left = @ - 1, !.mapped = @ + 1]

os_munmap(s, address, offset, mapped_size) ==
  LET ua == address - Int32(offset)
      k == (ua + SPAN_SIZE - 1) \div SPAN_SIZE
      exact == /\ k \in SpanSlots /\ s.span[k].mapped
               /\ s.span[k].raw = ua /\ s.span[k].rlen = mapped_size
      s1 == [s EXCEPT !.unmapped = @ + 1,
                      !.os.ua = ua, !.os.ul = mapped_size, !.os.exact = exact]
  IN IF exact
       THEN [s1 EXCEPT !.span[k] = ZeroSpan,
                       !.page = [a \in DOMAIN @ |-> IF SlotOf(a) = k THEN ZeroPage ELSE @[a]],
                       !.maps_left = @ + 1]
       ELSE s1

\* The calls through global_memory_interface.  A function the program
\* supplied does what the default of the same name does.
memory_map(s, size, alignment) ==
  IF Missing(s, "memory_map") THEN Crash([s EXCEPT !.r = NULL, !.mo = 0, !.ms = 0])
  ELSE os_mmap(s, size, alignment)

memory_map_heap(s, size) ==
  IF Missing(s, "memory_map") THEN Crash([s EXCEPT !.r = NULL, !.mo = 0, !.ms = 0])
  ELSE os_mmap_heap(s, size)

memory_unmap(s, address, offset, mapped_size) ==
  IF Missing(s, "memory_unmap") THEN Crash(s)
  ELSE os_munmap(s, address, offset, mapped_size)

(***************************************************************************)
(* Span and block interface (rpmalloc.c 1030-1096)                         *)
(***************************************************************************)
\* span_get_page_from_block without the shift of lines 1032-1033: every
\* block is taken to lie in the first page of its span.
span_get_page_from_block_first(s, sp, block) == sp

span_get_page_from_block(s, sp, block) ==
  LET shift == 2 ^ s.span[SlotOf(sp)].page_size_shift
      page_count == (block - sp) \div shift
  IN sp + page_count * shift

\* span->page_count is cut to MaxPages, to MaxPagesLarge for large pages.
SpanPageCount(page_type) ==
  Min(SPAN_SIZE \div PageSizeOfType(page_type),
      IF page_type = PAGE_LARGE THEN MaxPagesLarge ELSE MaxPages)

span_allocate_page(s, sp) ==
  LET k == SlotOf(sp)
      h == s.page[sp].heap
      ty == s.span[k].page_type
      p == sp + s.span[k].page_size * s.span[k].page_initialized
      s1 == [s EXCEPT !.span[k].page_initialized = @ + 1,
                      !.page[p].page_type = ty,
                      !.page[p].is_zero = 1,
                      !.page[p].owner_thread = s.heap[h].owner_thread,
                      !.page[p].heap = h]
      used == s1.heap[h].span_used[ty]
      s2 == IF s1.span[k].page_initialized = s1.span[k].page_count
              THEN LET a == [s1 EXCEPT !.heap[h].span_partial[ty] = NULL,
                                       !.span[k].next = used,
                                       !.heap[h].span_used[ty] = sp]
                   IN IF used # NULL THEN [a EXCEPT !.span[SlotOf(used)].prev = sp] ELSE a
              ELSE s1
  IN Ret(s2, p)

block_get_span(block) == AlignDown(block, SPAN_SIZE)

\* The region is released from the span's address, the padding left out.
block_deallocate_unshifted(s, block) ==
  LET sp == block_get_span(block)
      k == SlotOf(sp)
  IN IF s.span[k].page_type <= PAGE_LARGE
       THEN page_deallocate_block(s, span_get_page_from_block(s, sp, block), block)
       ELSE memory_unmap(s, sp, 0, s.span[k].mapped_size)

block_deallocate(s, block) ==
  LET sp == block_get_span(block)
      k == SlotOf(sp)
  IN IF s.span[k].page_type <= PAGE_LARGE
       THEN page_deallocate_block(s, span_get_page_from_block(s, sp, block), block)
       ELSE memory_unmap(s, sp, s.span[k].offset, s.span[k].mapped_size)

block_usable_size(s, block) ==
  LET sp == block_get_span(block)
      k == SlotOf(sp)
  IN IF s.span[k].page_type <= PAGE_LARGE
       THEN LET p == span_get_page_from_block(s, sp, block)
                blocks_start == p + PAGE_HEADER_SIZE
            IN s.page[p].block_size - ((block - blocks_start) % s.page[p].block_size)
       ELSE s.span[k].mapped_size - (block - sp)

(***************************************************************************)
(* Heap interface (rpmalloc.c 1104-1369).  The heap lock is taken and      *)
(* released inside one step here; SpecLoops below takes it apart.          *)
(***************************************************************************)
\* global_heap_default, always &global_heap_fallback
global_heap_default == FALLBACK

get_thread_heap(s) == s.tls[s.me]

set_thread_heap(s, h) ==
  LET s1 == [s EXCEPT !.tls[s.me] = h]
  IN IF h # NULL THEN [s1 EXCEPT !.heap[h].owner_thread = s.me] ELSE s1

\* memset_const(heap, 0, sizeof(heap_t)) on the mapped block
heap_initialize(s, block) ==
  IF block = NULL THEN Crash(Ret(s, NULL))
  ELSE Ret([s EXCEPT !.heap[block] = [ZeroHeap EXCEPT !.mapped = TRUE]], block)

\* sizeof(heap_t): owner_thread, the two class tables, four page type tables, next, id, finalize, offset, mapped_size
SizeofHeap == 8 + 2 * 8 * SIZE_CLASS_COUNT + 4 * 3 * 8 + 8 + 4 + 4 + 8 + 8

\* rpmalloc.c 1135-1138, on the outcome of the map
heap_allocate_new_mapped(a) ==
  IF a.r = NULL THEN heap_initialize(a, NULL)
  ELSE [heap_initialize(a, a.r) EXCEPT !.heap[a.r].offset = a.mo, !.heap[a.r].mapped_size = a.ms]

heap_allocate_new(s) ==
  heap_allocate_new_mapped(memory_map_heap(s, get_page_aligned_size(SizeofHeap)))

\* rpmalloc.c 1152-1156
heap_allocate_own(a) ==
  IF a.crash \/ a.r = NULL THEN a
  ELSE [a EXCEPT !.heap[a.r].next = NULL, !.heap[a.r].owner_thread = a.me]

heap_allocate(s, first_class) ==
  heap_allocate_own(
    IF first_class = 0 /\ s.queue # NULL
      THEN Ret([s EXCEPT !.queue = s.heap[s.queue].next], s.queue)
      ELSE heap_allocate_new(s))

\* set_thread_heap(heap) on the heap heap_allocate returned
set_thread_heap_allocated(a) ==
  IF a.crash THEN a ELSE set_thread_heap(a, a.r)

get_thread_heap_allocate(s) == set_thread_heap_allocated(heap_allocate(s, 0))

heap_release(s, h) ==
  [s EXCEPT !.heap[h].next = s.queue, !.queue = h]

\* Address a lies in page p.
InPage(s, p, a) == a >= p /\ a < p + page_get_size(s, p)

heap_make_free_page_available(s, h, size_class, p) ==
  LET head == Get(s.heap[h].page_available, size_class)
      s1 == [s EXCEPT !.page[p].size_class = size_class,
                      !.page[p].block_size = ClassBlockSize(size_class),
                      !.page[p].block_count = ClassBlockCount(size_class),
                      !.page[p].block_used = 0,
                      !.page[p].block_initialized = 0,
                      !.page[p].local_free = NULL,
                      !.page[p].local_free_count = 0,
                      !.page[p].is_full = 0,
                      !.page[p].is_free = 0,
                      !.page[p].has_aligned_block = 0,
                      !.page[p].owner_thread = s.heap[h].owner_thread,
                      !.page[p].next = head,
                      !.page[p].prev = NULL,
                      !.page[p].thread_free = TF0,
                      !.page[p].pushed = {},
                      !.heap[h].page_available = Put(@, size_class, p),
                      \* no list holds the page's blocks any more: what they hold is dead
                      !.bnext = [b \in {x \in DOMAIN @ : ~ InPage(s, p, x)} |-> @[b]]]
      s2 == IF head # NULL THEN [s1 EXCEPT !.page[head].prev = p] ELSE s1
  IN IF s2.page[p].is_decommitted # 0
       THEN LET c == page_commit_memory_pages(s2, p)
            IN \* memset of the first memory page past the header
               [c EXCEPT !.dirty[p] = PAGE_HEADER_SIZE, !.page[p].is_zero = 1]
       ELSE s2

\* rpmalloc.c 1215-1242, on the outcome of the map; hp is the heap
heap_get_span_mapped(b, hp, page_type) ==
  LET sp == b.r
      k == SlotOf(sp)
      owner == IF b.heap[hp].owner_thread = 0 THEN b.me ELSE b.heap[hp].owner_thread
  IN IF sp # NULL
       THEN [b EXCEPT !.span[k].page_type = page_type,
                      !.page[sp].heap = hp,
                      !.page[sp].owner_thread = b.heap[hp].owner_thread,
                      !.span[k].page_count = SpanPageCount(page_type),
                      !.span[k].page_size = PageSizeOfType(page_type),
                      !.span[k].page_size_shift = PageShiftOfType(page_type),
                      !.span[k].offset = b.mo,
                      !.span[k].mapped_size = b.ms,
                      !.heap[hp].span_partial[page_type] = sp,
                      !.heap[hp].owner_thread = owner]
       ELSE [b EXCEPT !.heap[hp].owner_thread = owner]

\* rpmalloc.c 1211-1242, a.r is the heap
heap_get_span_map(a, page_type) ==
  IF a.crash THEN Ret(a, NULL)
  ELSE heap_get_span_mapped(memory_map(a, SPAN_SIZE, SPAN_SIZE), a.r, page_type)

heap_get_span(s, h, page_type) ==
  IF s.heap[h].span_partial[page_type] # NULL
    THEN Ret(s, s.heap[h].span_partial[page_type])
    ELSE heap_get_span_map(IF h = global_heap_default
                             THEN get_thread_heap_allocate(rpmalloc_initialize(s, NoArgument))
                             ELSE Ret(s, h),
                           page_type)

\* rpmalloc.c 1284, b.r is the page span_allocate_page returned
heap_get_page_new(b, size_class) ==
  [heap_make_free_page_available(b, b.page[b.r].heap, size_class, b.r) EXCEPT !.pg = "span"]

\* rpmalloc.c 1282-1287, a.r is the span
heap_get_page_span(a, size_class) ==
  IF a.r # NULL THEN heap_get_page_new(span_allocate_page(a, a.r), size_class) ELSE a

\* The exchange of line 1264 with the head page kept only: the rest of the chain is dropped.
heap_get_page_head_only(s, h, size_class, page_mt) ==
  LET page_type == get_page_type(size_class)
  IN [heap_make_free_page_available(
        [s EXCEPT !.heap[h].page_free_thread[page_type] = NULL],
        h, size_class, page_mt)
      EXCEPT !.r = page_mt, !.pg = "free_thread"]

\* rpmalloc.c 1264-1273: the exchange of page_free_thread for 0 succeeded
heap_get_page_exchanged(s, h, size_class, page_mt) ==
  LET page_type == get_page_type(size_class)
  IN [heap_make_free_page_available(
        [s EXCEPT !.heap[h].page_free_thread[page_type] = NULL,
                  !.heap[h].page_free[page_type] = s.page[page_mt].next],
        h, size_class, page_mt)
      EXCEPT !.r = page_mt, !.pg = "free_thread"]

heap_get_page(s, h, size_class) ==
  LET page_type == get_page_type(size_class)
      avail == Get(s.heap[h].page_available, size_class)
      free == s.heap[h].page_free[page_type]
      page_mt == s.heap[h].page_free_thread[page_type]
  IN IF avail # NULL THEN [s EXCEPT !.r = avail, !.pg = "available"]
     ELSE IF free # NULL
       THEN [heap_make_free_page_available(
               [s EXCEPT !.heap[h].page_free[page_type] = s.page[free].next], h, size_class, free)
             EXCEPT !.r = free, !.pg = "free"]
     ELSE IF page_mt # NULL
       THEN heap_get_page_exchanged(s, h, size_class, page_mt)
     ELSE heap_get_page_span(heap_get_span(s, h, page_type), size_class)

heap_pop_local_free(s, h, size_class) ==
  LET block == Get(s.heap[h].local_free, size_class)
  IN IF block # NULL
       THEN Ret([Wild(s, block) EXCEPT !.heap[h].local_free = Put(@, size_class, NextOf(s, block)),
                                       !.bnext = Drop(@, block)], block)
       ELSE Ret(s, NULL)

\* page_allocate_block stops after its first part (rpmalloc.c 966-978) when it
\* is about to read the thread-free word again: the rest waits in pend.
page_allocate_block_split(b, p, zero) ==
  IF page_allocate_block_adopts_again(b, p)
    THEN [b EXCEPT !.pend = [st |-> "allocate", page |-> p, block |-> b.r,
                             is_zero |-> b.iszero, zero |-> zero]]
    ELSE page_allocate_block_finish(b, p, b.r, b.iszero, zero)

\* rpmalloc.c 1304-1306, a.r is the page
heap_allocate_block_page(a, zero) ==
  IF a.r # NULL /\ ~ a.crash
    THEN page_allocate_block_split(page_allocate_block_take(a, a.r), a.r, zero)
    ELSE Ret(a, NULL)

heap_allocate_block_small_to_large(s, h, size_class, zero) ==
  heap_allocate_block_page(heap_get_page(s, h, size_class), zero)

heap_allocate_block_huge(s, h, size) ==
  LET alloc_size == get_page_aligned_size(Wrap(size + SPAN_HEADER_SIZE))
      a == memory_map(s, alloc_size, SPAN_SIZE)
      block == a.r
      k == SlotOf(block)
  IN IF block # NULL
       THEN (IF a.mo + SPAN_HEADER_SIZE > a.ms
               THEN \* the span header lies past the end of the region
                    Crash(Ret(a, NULL))
               ELSE Ret([a EXCEPT !.span[k].page_type = PAGE_HUGE,
                                  !.span[k].page_size = size,
                                  !.span[k].page_size_shift = 0,
                                  !.span[k].offset = a.mo,
                                  !.span[k].mapped_size = a.ms,
                                  !.page[block].is_full = 1,
                                  !.zeroed = TRUE, !.src = "huge"],
                        block + SPAN_HEADER_SIZE))
       ELSE Ret(a, NULL)

\* The fast track of heap_allocate_block_tiny and heap_allocate_block_generic:
\* a block from the heap's local free list, zeroed when asked.
HeapFastTrack(s, zero) == [s EXCEPT !.zeroed = (zero # 0), !.src = "heap"]

heap_allocate_block_tiny(s, h, size, zero) ==
  LET size_class == get_size_class_tiny(size)
      a == heap_pop_local_free(s, h, size_class)
  IN IF a.r # NULL THEN HeapFastTrack(a, zero)
     ELSE heap_allocate_block_small_to_large(s, h, size_class, zero)

heap_allocate_block_generic(s, h, size, zero) ==
  LET size_class == get_size_class(size)
      a == heap_pop_local_free(s, h, size_class)
  IN IF size_class < SIZE_CLASS_COUNT
       THEN (IF a.r # NULL THEN HeapFastTrack(a, zero)
             ELSE heap_allocate_block_small_to_large(s, h, size_class, zero))
       ELSE heap_allocate_block_huge(s, h, size)

heap_allocate_block(s, h, size, zero) ==
  IF size <= SMALL_GRANULARITY * 16
    THEN heap_allocate_block_tiny(s, h, size, zero)
    ELSE heap_allocate_block_generic(s, h, size, zero)

\* The rest of an operation that stopped before a read of the thread-free word:
\* the allocation or the free goes on without another thread's step in between.
Complete(s) ==
  IF s.crash THEN s
  ELSE IF s.pend.st = "allocate"
    THEN [page_allocate_block_finish(s, s.pend.page, s.pend.block, s.pend.is_zero, s.pend.zero)
          EXCEPT !.pend = Idle]
  ELSE IF s.pend.st = "thread_free"
    THEN [page_put_thread_free_block_rest(s, s.pend.page, s.pend.list_size) EXCEPT !.pend = Idle]
  ELSE s

\* flags & flag, for a flag that is one bit
HasFlag(flags, flag) == (flags \div flag) % 2 = 1

\* The block as heap_allocate_block returned it: the shift to the alignment is left out.
heap_allocate_block_unaligned(a, alignment) == a

\* offsetof(page_t, has_aligned_block): the word of the flags follows six
\* 32-bit fields.
HAS_ALIGNED_BLOCK_OFFSET == 24

\* rpmalloc.c 1393-1399, a.r is the block heap_allocate_block returned.  The
\* page of a huge span (page_size_shift 0) is the block itself: the flag lands
\* in the block's memory, which is not all zero any more.  flag is the address
\* the flag was written to.
heap_allocate_block_align(a, alignment) ==
  LET block == a.r
      align_mask == alignment - 1
      aligned == (block - BitAnd(block, align_mask)) + alignment
      p == span_get_page_from_block(a, block_get_span(aligned), aligned)
  IN IF BitAnd(block, align_mask) # 0
       THEN (IF p \in PageAddrs
               THEN [a EXCEPT !.page[p].has_aligned_block = 1, !.r = aligned,
                              !.flag = p + HAS_ALIGNED_BLOCK_OFFSET]
               ELSE [a EXCEPT !.r = aligned, !.flag = p + HAS_ALIGNED_BLOCK_OFFSET,
                              !.zeroed = FALSE])
       ELSE a

\* An alignment of exactly MAX_ALIGNMENT passes.
heap_allocate_block_aligned_above(alignment) == alignment > MAX_ALIGNMENT

\* rpmalloc.c 1386: the alignment is refused
heap_allocate_block_aligned_too_large(alignment) == alignment >= MAX_ALIGNMENT

heap_allocate_block_aligned(s, h, alignment, size, zero) ==
  IF alignment <= SMALL_GRANULARITY
    THEN heap_allocate_block(s, h, size, zero)
  ELSE IF heap_allocate_block_aligned_too_large(alignment)
    THEN [s EXCEPT !.errno[s.me] = EINVAL, !.r = NULL]
  ELSE heap_allocate_block_align(
         Complete(heap_allocate_block(s, h, Wrap(size + alignment), zero)), alignment)

\* rpmalloc.c 1411-1416 and 1425-1427: the old_size heap_reallocate_block works with
heap_reallocate_old_size(s, block, old_size) ==
  LET sp == block_get_span(block)
      p == span_get_page_from_block(s, sp, block)
  IN IF block = NULL THEN 0
     ELSE IF old_size # 0 THEN old_size
     ELSE IF s.span[SlotOf(sp)].page_type <= PAGE_LARGE
       THEN s.page[p].block_size - (block - page_block_realign(s, p, block))
     ELSE s.span[SlotOf(sp)].page_size

\* rpmalloc.c 1417 and 1428: the block holds size bytes as it is
heap_reallocate_fits(s, block, size) ==
  LET sp == block_get_span(block)
      p == span_get_page_from_block(s, sp, block)
  IN /\ block # NULL
     /\ IF s.span[SlotOf(sp)].page_type <= PAGE_LARGE
          THEN s.page[p].block_size >= size
          ELSE size < s.span[SlotOf(sp)].mapped_size

\* rpmalloc.c 1419-1421 and 1430-1433: the block stays; r is its origin
heap_reallocate_in_place(s, block, size) ==
  LET sp == block_get_span(block)
      p == span_get_page_from_block(s, sp, block)
  IN IF s.span[SlotOf(sp)].page_type <= PAGE_LARGE
       THEN [s EXCEPT !.r = page_block_realign(s, p, block), !.src = "in_place"]
       ELSE [s EXCEPT !.span[SlotOf(sp)].page_size = size,
                      !.r = sp + SPAN_HEADER_SIZE, !.src = "in_place"]

\* rpmalloc.c 1449-1453, a.r is the new block
heap_reallocate_release(a, old_block) ==
  IF a.r # NULL /\ old_block # NULL /\ ~ a.crash
    THEN [Complete(block_deallocate(a, old_block)) EXCEPT !.r = a.r, !.src = "moved"]
    ELSE a

\* rpmalloc.c 1445-1446
heap_reallocate_new_size(size, old_size) ==
  LET lower_bound == old_size + (old_size \div 4) + (old_size \div 8)
  IN IF size > lower_bound THEN size
     ELSE IF size > old_size THEN lower_bound ELSE size

\* rpmalloc.c 1440-1455
heap_reallocate_move(s, h, block, size, old_size, flags) ==
  IF HasFlag(flags, RPMALLOC_GROW_OR_FAIL) THEN Ret(s, NULL)
  ELSE heap_reallocate_release(
         Complete(heap_allocate_block(s, h, heap_reallocate_new_size(size, old_size), 0)), block)

heap_reallocate_block(s, h, block, size, old_size, flags) ==
  IF heap_reallocate_fits(s, block, size)
    THEN heap_reallocate_in_place(s, block, size)
    ELSE heap_reallocate_move(s, h, block, size, heap_reallocate_old_size(s, block, old_size), flags)

\* rpmalloc.c 1480-1482, a.r is the new block or 0
heap_reallocate_aligned_release(a, old_block) ==
  IF old_block # NULL /\ ~ a.crash
    THEN [Complete(block_deallocate(a, old_block)) EXCEPT !.r = a.r, !.src = "moved"]
    ELSE a

heap_reallocate_block_aligned(s, h, block, alignment, size, old_size, flags) ==
  LET no_alloc == HasFlag(flags, RPMALLOC_GROW_OR_FAIL)
      usable_size == IF block # NULL THEN block_usable_size(s, block) ELSE 0
  IN IF alignment <= SMALL_GRANULARITY
       THEN heap_reallocate_block(s, h, block, size, old_size, flags)
     ELSE IF /\ usable_size >= size /\ BitAnd(block, alignment - 1) = 0
             /\ (no_alloc \/ size >= usable_size \div 2)
       THEN [s EXCEPT !.r = block, !.src = "in_place"]
     ELSE heap_reallocate_aligned_release(
            IF no_alloc THEN Ret(s, NULL)
            ELSE Complete(heap_allocate_block_aligned(s, h, alignment, size, 0)), block)

(***************************************************************************)
(* Extern interface (rpmalloc.c 1491-1739)                                 *)
(***************************************************************************)
rpmalloc(s, size) == heap_allocate_block(s, get_thread_heap(s), size, 0)

rpfree(s, ptr) == IF ptr = NULL THEN s ELSE block_deallocate(s, ptr)

rpcalloc(s, num, size) ==
  LET total == Wrap(num * size)
  IN heap_allocate_block(s, get_thread_heap(s), total, 1)

rprealloc(s, ptr, size) ==
  heap_reallocate_block(s, get_thread_heap(s), ptr, size, 0, 0)

rpaligned_realloc(s, ptr, alignment, size, oldsize, flags) ==
  heap_reallocate_block_aligned(s, get_thread_heap(s), ptr, alignment, size, oldsize, flags)

rpaligned_alloc(s, alignment, size) ==
  heap_allocate_block_aligned(s, get_thread_heap(s), alignment, size, 0)

rpaligned_calloc(s, alignment, num, size) ==
  LET total == Wrap(num * size)
  IN heap_allocate_block_aligned(s, get_thread_heap(s), alignment, total, 1)

rpmemalign(s, alignment, size) ==
  heap_allocate_block_aligned(s, get_thread_heap(s), alignment, size, 0)

\* r is *memptr (memptr is not null), code the value returned
rpposix_memalign_store(a) ==
  [a EXCEPT !.code = IF a.r # NULL THEN 0 ELSE ENOMEM]

\* memptr: whether the caller passed a place for the pointer
rpposix_memalign(s, memptr, alignment, size) ==
  IF memptr # NULL
    THEN rpposix_memalign_store(
           Complete(heap_allocate_block_aligned(s, get_thread_heap(s), alignment, size, 0)))
    ELSE [s EXCEPT !.code = EINVAL]

rpmalloc_is_thread_initialized(s) ==
  IF get_thread_heap(s) # global_heap_default THEN 1 ELSE 0

\* An empty function
rpmalloc_thread_initialize(s) == s

rpmalloc_usable_size(s, ptr) == IF ptr # NULL THEN block_usable_size(s, ptr) ELSE 0

rpmalloc_thread_finalize(s) ==
  LET h == get_thread_heap(s)
  IN IF h # global_heap_default
       THEN heap_release(set_thread_heap(s, global_heap_default), h)
       ELSE s

(***************************************************************************)
(* The program: threads that allocate, free and finalize.                  *)
(***************************************************************************)
\* Request sizes: a tiny class whose fresh blocks are linked up to the next
\* memory page, and the largest small class.
Sizes == {SMALL_GRANULARITY, SMALL_BLOCK_SIZE_LIMIT}
\* The padding the OS address needs to reach SPAN_SIZE alignment
Offsets == {0}

\* A sequential program's request sizes: a tiny and a small class, a huge
\* block, and a size whose sum with a header wraps.
SeqSizes == {SMALL_GRANULARITY, SMALL_BLOCK_SIZE_LIMIT, LARGE_BLOCK_SIZE_LIMIT + 1,
             WORD_MOD - 2 * SMALL_GRANULARITY}
Alignments == {SMALL_GRANULARITY, 2 * SMALL_GRANULARITY, os_page_size, MAX_ALIGNMENT \div 2}
\* Alignments valid and invalid: a power of two, one that is none, the smallest
\* that is refused, and a larger one.
ArgAlignments == {2 * SMALL_GRANULARITY, 3 * SMALL_GRANULARITY, MAX_ALIGNMENT, 2 * MAX_ALIGNMENT}
FewAlignments == {2 * SMALL_GRANULARITY, 3 * SMALL_GRANULARITY, MAX_ALIGNMENT}
\* num and size of a calloc: a product that fits size_t and one that does not
CallocArgs == {<< 1, SMALL_GRANULARITY >>, << 2 ^ 15, 2 ^ 15 >>}
AlignedSizes == {SMALL_GRANULARITY, SMALL_BLOCK_SIZE_LIMIT}
ReallocAlignments == {SMALL_GRANULARITY, 2 * SMALL_GRANULARITY}
ReallocFlags == {0, RPMALLOC_GROW_OR_FAIL}

\* The state of the process when it is loaded, the interface aside: the
\* globals are zero.
Loaded ==
  /\ page = [a \in PageAddrs |-> ZeroPage]
  /\ span = [k \in SpanSlots |-> ZeroSpan]
  /\ heap = [h \in HeapIds \cup {FALLBACK} |->
               IF h = FALLBACK THEN [ZeroHeap EXCEPT !.mapped = TRUE] ELSE ZeroHeap]
  /\ bnext = EmptyMap
  /\ dirty = [a \in PageAddrs |-> PAGE_HEADER_SIZE]
  /\ data = EmptyMap
  /\ tls = [t \in Threads |-> global_heap_default]
  /\ queue = NULL
  /\ lock = 0
  /\ errno = [t \in Threads |-> 0]
  /\ live = {}
  /\ pc = [t \in Threads |-> Idle]
  /\ started = 0
  /\ after = 0
  /\ ev = NoEv

\* The state after rpmalloc_initialize(0), before any thread has allocated.
Start ==
  /\ Loaded
  /\ global_memory_interface = [ptr |-> "default", dflt |-> OsInterface, user |-> NoInterface]

Init == Start /\ maps_left = MaxMaps

\* An rpmalloc_assert of the page interface would fail (the build compiles them
\* out): a counter left its range.  The run ends there like at a crash.
Broken(s) ==
  \E a \in PageAddrs :
    \/ s.page[a].block_used < 0
    \/ s.page[a].block_used > s.page[a].block_count
    \/ s.page[a].block_initialized > s.page[a].block_count
    \/ s.page[a].local_free_count < 0
    \/ s.page[a].local_free_count > s.page[a].block_count
    \/ s.page[a].thread_free.cnt > s.page[a].block_count

\* What an operation leaves behind for the claims.
Ev(op, s, arg, dup, same) ==
  [ op |-> op, t |-> s.me, arg |-> arg, r |-> s.r,
    usable |-> IF s.r # NULL /\ op \notin {"free", "map"} /\ ~ s.crash /\ ~ Broken(s)
                 THEN rpmalloc_usable_size(s, s.r) ELSE 0,
    zeroed |-> s.zeroed, dup |-> dup,
    lost |-> (s.r = NULL /\ s.src = "moved"),
    foreign |-> s.foreign, failed |-> s.failed, pg |-> s.pg,
    same |-> same, crash |-> (s.crash \/ Broken(s)), code |-> s.code,
    mapped |-> s.mapped, unmapped |-> s.unmapped, mo |-> s.mo, ms |-> s.ms, os |-> s.os,
    flag |-> s.flag ]

\* The allocator's state is what it was before the operation.
Same(s) ==
  /\ s.page = page /\ s.span = span /\ s.heap = heap /\ s.tls = tls
  /\ s.queue = queue /\ s.bnext = bnext /\ s.maps_left = maps_left
  /\ s.mi = global_memory_interface

\* A crash ends the run, and so does a block handed out twice: the free lists
\* are no lists any more.
Running == ~ ev.crash /\ ~ ev.dup /\ ~ ev.lost /\ after <= MaxAfter

\* The count of the steps after a lost update
Tick == after' = IF after > 0 THEN after + 1 ELSE 0

\* A step of an operation that stops in the middle: the rest waits in pc.
Pause(t, s, op, arg) ==
  /\ pc' = [pc EXCEPT ![t] = [st |-> s.pend.st, pend |-> s.pend, op |-> op, arg |-> arg,
                              zeroed |-> s.zeroed, foreign |-> s.foreign,
                              failed |-> s.failed, src |-> s.src, pg |-> s.pg,
                              mapped |-> s.mapped]]
  /\ ev' = NoEv

\* The operation's context again, for the step that goes on.
Resume(t) ==
  [St(t, 0) EXCEPT !.zeroed = pc[t].zeroed, !.foreign = pc[t].foreign,
                      !.failed = pc[t].failed, !.src = pc[t].src, !.pg = pc[t].pg,
                      !.mapped = pc[t].mapped]

AllocDone(t, s, op, arg) ==
  /\ Commit(s)
  /\ Tick
  /\ IF s.pend.st # "idle" /\ ~ s.crash /\ ~ Broken(s)
       THEN Pause(t, s, op, arg) /\ UNCHANGED live
       ELSE /\ pc' = [pc EXCEPT ![t] = Idle]
            /\ ev' = Ev(op, s, arg, s.r \in live, Same(s))
            /\ live' = IF s.r # NULL THEN live \cup {s.r} ELSE live

Malloc(t) ==
  \E size \in Sizes, off \in Offsets :
    /\ Running /\ pc[t].st = "idle" /\ Cardinality(live) < MaxLive
    /\ LET s == rpmalloc(St(t, off), size)
       IN AllocDone(t, s, "malloc", Arg(size, 0, 0, NULL))

Calloc(t) ==
  \E size \in Sizes, off \in Offsets :
    /\ Running /\ pc[t].st = "idle" /\ Cardinality(live) < MaxLive
    /\ LET s == rpcalloc(St(t, off), 1, size)
       IN AllocDone(t, s, "calloc", Arg(size, 0, 0, NULL))

\* The rest of page_allocate_block (rpmalloc.c 980-1002)
AllocFinish(t) ==
  /\ Running /\ pc[t].st = "allocate"
  /\ LET q == pc[t].pend
         s == page_allocate_block_finish(Resume(t), q.page, q.block, q.is_zero, q.zero)
     IN AllocDone(t, s, pc[t].op, pc[t].arg)

FreeDone(t, s, ptr) ==
  /\ Commit(s)
  /\ Tick
  /\ live' = live \ {ptr}
  /\ IF s.pend.st # "idle" /\ ~ s.crash /\ ~ Broken(s)
       THEN Pause(t, s, "free", Arg(0, 0, 0, ptr))
       ELSE /\ pc' = [pc EXCEPT ![t] = Idle]
            /\ ev' = Ev("free", s, Arg(0, 0, 0, ptr), FALSE, Same(s))

Free(t) ==
  \E ptr \in live :
    /\ Running /\ pc[t].st = "idle"
    /\ LET s == rpfree(St(t, 0), ptr)
       IN FreeDone(t, s, ptr)

\* The page of a class-backed pointer, and the block rpfree puts on a list.
PageOf(ptr) == span_get_page_from_block(St(1, 0), block_get_span(ptr), ptr)
BlockOf(ptr) ==
  IF page[PageOf(ptr)].has_aligned_block # 0
    THEN page_block_realign(St(1, 0), PageOf(ptr), ptr) ELSE ptr

\* rpfree on the local path by a thread that is not bound to the page's heap
\* races with the bound thread: page->local_free is read here, and written in FreeWrite.
FreeRead(t) ==
  \E ptr \in live :
    /\ Running /\ pc[t].st = "idle"
    /\ span[SlotOf(ptr)].page_type <= PAGE_LARGE
    /\ page[PageOf(ptr)].owner_thread \in {0, t}
    /\ tls[t] # page[PageOf(ptr)].heap
    /\ \A u \in Threads : pc[u].st # "put_local"
    /\ Tick
    /\ live' = live \ {ptr}
    /\ pc' = [pc EXCEPT ![t] = [st |-> "put_local", page |-> PageOf(ptr), block |-> BlockOf(ptr),
                                seen |-> page[PageOf(ptr)].local_free, arg |-> Arg(0, 0, 0, ptr)]]
    /\ ev' = NoEv
    /\ UNCHANGED << page, span, heap, bnext, dirty, data, tls, queue, lock, errno, maps_left,
                    global_memory_interface, started >>

FreeWrite(t) ==
  /\ Running /\ pc[t].st = "put_local"
  /\ LET q == pc[t]
         s == page_put_local_free_block_seen(St(t, 0), q.page, q.block, q.seen)
     IN /\ Commit(s)
        /\ pc' = [pc EXCEPT ![t] = Idle]
        /\ ev' = Ev("free", s, q.arg, FALSE, Same(s))
        /\ after' = IF q.seen # page[q.page].local_free \/ after > 0 THEN after + 1 ELSE 0
        /\ UNCHANGED live

\* The rest of page_put_thread_free_block (rpmalloc.c 901-917)
FreeRest(t) ==
  /\ Running /\ pc[t].st = "thread_free"
  /\ LET q == pc[t].pend
         s == page_put_thread_free_block_rest(Resume(t), q.page, q.list_size)
     IN /\ Commit(s)
        /\ pc' = [pc EXCEPT ![t] = Idle]
        /\ ev' = Ev("free", s, pc[t].arg, FALSE, Same(s))
        /\ Tick
        /\ UNCHANGED live

ThreadFinalize(t) ==
  /\ Running /\ pc[t].st = "idle"
  /\ LET s == rpmalloc_thread_finalize(St(t, 0))
     IN /\ Commit(s)
        /\ ev' = Ev("finalize", s, Arg(0, 0, 0, NULL), FALSE, Same(s))
        /\ Tick
        /\ UNCHANGED << live, pc >>

(***************************************************************************)
(* A sequential program: one thread, each call runs to its return.         *)
(***************************************************************************)
InitSeq == Start /\ maps_left = MaxMapsSeq

\* A call that returns pointer s.r, for the pointer arg.ptr it was given
CallDone(t, s, op, arg) ==
  /\ Commit(s)
  /\ Tick
  /\ pc' = [pc EXCEPT ![t] = Idle]
  /\ ev' = Ev(op, s, arg, s.r # NULL /\ s.r \in live \ {arg.ptr}, Same(s))
  /\ live' = IF s.r # NULL THEN (live \ {arg.ptr}) \cup {s.r}
             ELSE IF op \in {"free", "drop"} THEN live \ {arg.ptr}
             ELSE live

CallMalloc(t) ==
  \E size \in SeqSizes :
    /\ Running /\ pc[t].st = "idle" /\ Cardinality(live) < MaxLiveSeq
    /\ LET s == Complete(rpmalloc(St(t, 0), size))
       IN CallDone(t, s, "malloc", Arg(size, 0, 0, NULL))

CallAlignedAlloc(t) ==
  \E alignment \in Alignments, size \in AlignedSizes :
    /\ Running /\ pc[t].st = "idle" /\ Cardinality(live) < MaxLiveSeq
    /\ LET s == Complete(rpaligned_alloc(St(t, 0), alignment, size))
       IN CallDone(t, s, "aligned_alloc", Arg(size, alignment, 0, NULL))

CallRealloc(t) ==
  \E ptr \in live, size \in AlignedSizes :
    /\ Running /\ pc[t].st = "idle"
    /\ LET s == Complete(rprealloc(St(t, 0), ptr, size))
       IN CallDone(t, s, "realloc", Arg(size, 0, 0, ptr))

CallAlignedRealloc(t) ==
  \E ptr \in live, alignment \in ReallocAlignments, size \in AlignedSizes, flags \in ReallocFlags :
    /\ Running /\ pc[t].st = "idle"
    /\ LET s == Complete(rpaligned_realloc(St(t, 0), ptr, alignment, size, 0, flags))
       IN CallDone(t, s, "aligned_realloc", Arg(size, alignment, flags, ptr))

CallCalloc(t) ==
  \E a \in CallocArgs :
    /\ Running /\ pc[t].st = "idle" /\ Cardinality(live) < MaxLiveSeq
    /\ LET s == Complete(rpcalloc(St(t, 0), a[1], a[2]))
       IN CallDone(t, s, "calloc", [Arg(a[2], 0, 0, NULL) EXCEPT !.num = a[1]])

\* rpaligned_alloc with any alignment
CallAlignedAllocAny(t) ==
  \E alignment \in ArgAlignments :
    /\ Running /\ pc[t].st = "idle" /\ Cardinality(live) < MaxLiveSeq
    /\ LET s == Complete(rpaligned_alloc(St(t, 0), alignment, SMALL_GRANULARITY))
       IN CallDone(t, s, "aligned_alloc", Arg(SMALL_GRANULARITY, alignment, 0, NULL))

CallAlignedCalloc(t) ==
  \E alignment \in FewAlignments :
    /\ Running /\ pc[t].st = "idle" /\ Cardinality(live) < MaxLiveSeq
    /\ LET s == Complete(rpaligned_calloc(St(t, 0), alignment, 1, SMALL_GRANULARITY))
       IN CallDone(t, s, "aligned_calloc", Arg(SMALL_GRANULARITY, alignment, 0, NULL))

CallMemalign(t) ==
  \E alignment \in FewAlignments :
    /\ Running /\ pc[t].st = "idle" /\ Cardinality(live) < MaxLiveSeq
    /\ LET s == Complete(rpmemalign(St(t, 0), alignment, SMALL_GRANULARITY))
       IN CallDone(t, s, "memalign", Arg(SMALL_GRANULARITY, alignment, 0, NULL))

CallPosixMemalign(t) ==
  \E memptr \in {NULL, 1}, alignment \in FewAlignments :
    /\ Running /\ pc[t].st = "idle" /\ Cardinality(live) < MaxLiveSeq
    /\ LET s == rpposix_memalign(St(t, 0), memptr, alignment, SMALL_GRANULARITY)
       IN CallDone(t, s, "posix_memalign",
                   [Arg(SMALL_GRANULARITY, alignment, 0, NULL) EXCEPT !.out = memptr])

CallFree(t) ==
  \E ptr \in live :
    /\ Running /\ pc[t].st = "idle"
    /\ LET s == Complete(rpfree(St(t, 0), ptr))
       IN CallDone(t, s, "free", Arg(0, 0, 0, ptr))

NextSeq ==
  \E t \in {1} :
    \/ CallMalloc(t)
    \/ CallAlignedAlloc(t)
    \/ CallRealloc(t)
    \/ CallAlignedRealloc(t)
    \/ CallFree(t)

SpecSeq == InitSeq /\ [][NextSeq]_vars

(***************************************************************************)
(* The reuse program: one thread repeats p = rpmalloc(n); rpfree(p), and   *)
(* holds some other blocks meanwhile.                                      *)
(***************************************************************************)
\* The largest tiny class, whose fresh blocks are linked up to the next memory
\* page, and the largest small class, whose blocks are not.
ReuseSizes == {16 * SMALL_GRANULARITY, SMALL_BLOCK_SIZE_LIMIT}

\* The pointers the program holds besides the one the last rpmalloc returned
Held == IF ev.op = "malloc" THEN live \ {ev.r} ELSE live

\* p = rpmalloc(n)
ReuseAlloc(t) ==
  \E size \in ReuseSizes :
    /\ Running /\ ev.op # "malloc"
    /\ LET s == Complete(rpmalloc(St(t, 0), size))
       IN CallDone(t, s, "malloc", Arg(size, 0, 0, NULL))

\* rpfree(p) of the pointer the last rpmalloc returned
ReuseFree(t) ==
  /\ Running /\ ev.op = "malloc" /\ ev.r # NULL
  /\ LET s == Complete(rpfree(St(t, 0), ev.r))
     IN CallDone(t, s, "free", Arg(ev.arg.size, 0, 0, ev.r))

\* An allocation the program keeps
ReuseHold(t) ==
  \E size \in ReuseSizes :
    /\ Running /\ ev.op # "malloc" /\ started < MaxHeld
    /\ LET s == Complete(rpmalloc([St(t, 0) EXCEPT !.started = @ + 1], size))
       IN CallDone(t, s, "hold", Arg(size, 0, 0, NULL))

\* The free of a pointer the program kept
ReuseDrop(t) ==
  \E ptr \in Held :
    /\ Running /\ ev.op # "malloc"
    /\ LET s == Complete(rpfree(St(t, 0), ptr))
       IN CallDone(t, s, "drop", Arg(0, 0, 0, ptr))

NextReuse ==
  \E t \in {1} :
    \/ ReuseAlloc(t)
    \/ ReuseFree(t)
    \/ ReuseHold(t)
    \/ ReuseDrop(t)

SpecReuse == InitSeq /\ [][NextReuse]_vars

\* A sequential program that calls the entry points with valid and invalid arguments
NextArgs ==
  \E t \in {1} :
    \/ CallCalloc(t)
    \/ CallAlignedAllocAny(t)
    \/ CallAlignedCalloc(t)
    \/ CallMemalign(t)
    \/ CallPosixMemalign(t)
    \/ CallFree(t)

SpecArgs == InitSeq /\ [][NextArgs]_vars

(***************************************************************************)
(* A sequential program that asks for aligned blocks of the size classes   *)
(* and of huge size, with and without zero fill, and frees them.           *)
(***************************************************************************)
\* Alignments above SMALL_GRANULARITY and below MAX_ALIGNMENT
ShiftAlignments == {2 * SMALL_GRANULARITY, 2 * PAGE_HEADER_SIZE, os_page_size, MAX_ALIGNMENT \div 2}
\* A tiny and a small size, and the smallest huge size
ShiftSizes == {SMALL_GRANULARITY, SMALL_BLOCK_SIZE_LIMIT, LARGE_BLOCK_SIZE_LIMIT + 1}

ShiftAlloc(t) ==
  \E alignment \in ShiftAlignments, size \in ShiftSizes :
    /\ Running /\ pc[t].st = "idle" /\ Cardinality(live) < MaxLiveSeq
    /\ LET s == Complete(rpaligned_alloc(St(t, 0), alignment, size))
       IN CallDone(t, s, "aligned_alloc", Arg(size, alignment, 0, NULL))

ShiftCalloc(t) ==
  \E alignment \in ShiftAlignments, size \in ShiftSizes :
    /\ Running /\ pc[t].st = "idle" /\ Cardinality(live) < MaxLiveSeq
    /\ LET s == Complete(rpaligned_calloc(St(t, 0), alignment, 1, size))
       IN CallDone(t, s, "aligned_calloc", Arg(size, alignment, 0, NULL))

NextShift ==
  \E t \in {1} :
    \/ ShiftAlloc(t)
    \/ ShiftCalloc(t)
    \/ CallFree(t)

SpecShift == InitSeq /\ [][NextShift]_vars

(***************************************************************************)
(* Thread 1 allocates aligned and plain blocks of two size classes; it and *)
(* thread 2 free them.                                                     *)
(***************************************************************************)
\* An alignment that shifts a block of a small page, and one that shifts a
\* block of a medium page
FreedAlignments == {2 * SMALL_GRANULARITY, os_page_size}
\* The class that serves SMALL_GRANULARITY bytes at the smaller alignment
FreedSizes == {3 * SMALL_GRANULARITY}

FreedAlignedAlloc(t) ==
  \E alignment \in FreedAlignments :
    /\ Running /\ pc[t].st = "idle" /\ Cardinality(live) < MaxLiveFreed
    /\ started < MaxStartedFreed
    /\ LET s == Complete(rpaligned_alloc([St(t, 0) EXCEPT !.started = @ + 1], alignment,
                                         SMALL_GRANULARITY))
       IN CallDone(t, s, "aligned_alloc", Arg(SMALL_GRANULARITY, alignment, 0, NULL))

FreedMalloc(t) ==
  \E size \in FreedSizes :
    /\ Running /\ pc[t].st = "idle" /\ Cardinality(live) < MaxLiveFreed
    /\ started < MaxStartedFreed
    /\ LET s == Complete(rpmalloc([St(t, 0) EXCEPT !.started = @ + 1], size))
       IN CallDone(t, s, "malloc", Arg(size, 0, 0, NULL))

FreedFree(t) ==
  \E ptr \in live :
    /\ Running /\ pc[t].st = "idle"
    /\ started < MaxStartedFreed
    /\ \E s \in {Complete(rpfree([St(t, 0) EXCEPT !.started = @ + 1], ptr))} :
         FreeDone(t, s, ptr)

NextFreed ==
  \/ FreedAlignedAlloc(1)
  \/ FreedMalloc(1)
  \/ FreedFree(1)
  \/ FreedFree(2)

SpecFreed == InitSeq /\ [][NextFreed]_vars

(***************************************************************************)
(* The life of a thread: it allocates blocks of every kind, frees them,    *)
(* and calls rpmalloc_thread_initialize and rpmalloc_thread_finalize.      *)
(***************************************************************************)
\* A tiny class and a huge size
LifeSizes == {SMALL_GRANULARITY, LARGE_BLOCK_SIZE_LIMIT + 1}
\* How far below a multiple of SPAN_SIZE the OS places a region
MapOffsets == {0, os_page_size}

LifeMalloc(t) ==
  \E size \in LifeSizes, off \in MapOffsets :
    /\ Running /\ pc[t].st = "idle" /\ Cardinality(live) < MaxLiveLife
    /\ LET s == Complete(rpmalloc(St(t, off), size))
       IN CallDone(t, s, "malloc", Arg(size, 0, 0, NULL))

LifeThreadInitialize(t) ==
  /\ Running /\ pc[t].st = "idle"
  /\ LET s == rpmalloc_thread_initialize(St(t, 0))
     IN CallDone(t, s, "thread_initialize", Arg(0, 0, 0, NULL))

LifeThreadFinalize(t) ==
  /\ Running /\ pc[t].st = "idle"
  /\ LET s == rpmalloc_thread_finalize(St(t, 0))
     IN CallDone(t, s, "finalize", Arg(0, 0, 0, NULL))

NextLife ==
  \E t \in {1} :
    \/ LifeMalloc(t)
    \/ CallFree(t)
    \/ LifeThreadInitialize(t)
    \/ LifeThreadFinalize(t)

SpecLife == InitSeq /\ [][NextLife]_vars

(***************************************************************************)
(* A thread that requests sizes at the borders of the size classes and     *)
(* frees the blocks.                                                       *)
(***************************************************************************)
\* No byte and one byte, the sizes around the end of the first class and of
\* the tiny path, around the ends of the small and the medium classes, and
\* the largest size of a class and the first huge size
ClassSizes ==
  {0, 1, SMALL_GRANULARITY, SMALL_GRANULARITY + 1,
   16 * SMALL_GRANULARITY, 16 * SMALL_GRANULARITY + 1,
   SMALL_BLOCK_SIZE_LIMIT, SMALL_BLOCK_SIZE_LIMIT + 1,
   MEDIUM_BLOCK_SIZE_LIMIT, MEDIUM_BLOCK_SIZE_LIMIT + 1,
   LARGE_BLOCK_SIZE_LIMIT, LARGE_BLOCK_SIZE_LIMIT + 1}

ClassMalloc(t) ==
  \E size \in ClassSizes :
    /\ Running /\ pc[t].st = "idle" /\ Cardinality(live) < MaxLiveSeq
    /\ LET s == Complete(rpmalloc(St(t, 0), size))
       IN CallDone(t, s, "malloc", Arg(size, 0, 0, NULL))

NextClass ==
  \E t \in {1} :
    \/ ClassMalloc(t)
    \/ CallFree(t)

SpecClass == InitSeq /\ [][NextClass]_vars

(***************************************************************************)
(* The spans of a thread that allocates large blocks, frees them and       *)
(* finalizes: a span of large pages has more than one page.                *)
(***************************************************************************)
\* The smallest size of the large classes
SpanSizes == {MEDIUM_BLOCK_SIZE_LIMIT + 1}

SpanMalloc(t) ==
  \E size \in SpanSizes :
    /\ Running /\ pc[t].st = "idle" /\ Cardinality(live) < MaxLiveSpans
    /\ LET s == Complete(rpmalloc(St(t, 0), size))
       IN CallDone(t, s, "malloc", Arg(size, 0, 0, NULL))

NextSpans ==
  \E t \in {1} :
    \/ SpanMalloc(t)
    \/ CallFree(t)
    \/ LifeThreadFinalize(t)

SpecSpans == InitSeq /\ [][NextSpans]_vars

(***************************************************************************)
(* A program that initializes and finalizes the allocator itself, with    *)
(* interfaces of its own, and allocates and frees in between.              *)
(***************************************************************************)
\* The members a supplied structure sets, as a mask: 1 memory_map,
\* 2 memory_commit, 4 memory_decommit, 8 memory_unmap
Supplied(mask, bit) == IF BitAnd(mask, bit) # 0 THEN "user" ELSE "null"
Structure(mask) ==
  [memory_map |-> Supplied(mask, 1), memory_commit |-> Supplied(mask, 2),
   memory_decommit |-> Supplied(mask, 4), memory_unmap |-> Supplied(mask, 8)]
\* Only memory_map; memory_map and memory_unmap; all four
Masks == {1, 9, 15}
\* Two tiny classes
InitSizes == {SMALL_GRANULARITY, 2 * SMALL_GRANULARITY}

InitLoaded ==
  /\ Loaded
  /\ global_memory_interface = [ptr |-> "null", dflt |-> NoInterface, user |-> NoInterface]
  /\ maps_left = MaxMapsSeq

\* rpmalloc_initialize(0): ptr is 0; rpmalloc_initialize(&structure): ptr is 1
Initialize(t) ==
  \E given \in BOOLEAN, mask \in Masks :
    /\ Running /\ pc[t].st = "idle"
    /\ LET s == rpmalloc_initialize(St(t, 0), [given |-> given, ops |-> Structure(mask)])
       IN CallDone(t, s, "initialize", Arg(0, 0, IF given THEN mask ELSE 0, IF given THEN 1 ELSE NULL))

Finalize(t) ==
  /\ Running /\ pc[t].st = "idle"
  /\ LET s == rpmalloc_finalize(St(t, 0))
     IN CallDone(t, s, "rpmalloc_finalize", Arg(0, 0, 0, NULL))

InitMalloc(t) ==
  \E size \in InitSizes :
    /\ Running /\ pc[t].st = "idle" /\ Cardinality(live) < MaxLiveLife
    /\ LET s == Complete(rpmalloc(St(t, 0), size))
       IN CallDone(t, s, "malloc", Arg(size, 0, 0, NULL))

NextInit ==
  \E t \in {1} :
    \/ Initialize(t)
    \/ Finalize(t)
    \/ InitMalloc(t)
    \/ CallFree(t)

SpecInit == InitLoaded /\ [][NextInit]_vars

(***************************************************************************)
(* The default map and unmap functions on their own: a program maps        *)
(* regions and unmaps the one it mapped last with what the map reported.   *)
(***************************************************************************)
\* A memory page, a span, and two sizes that reach the end of the address space
MapSizes == {os_page_size, SPAN_SIZE, WORD_MOD - SPAN_SIZE + os_page_size, WORD_MOD - os_page_size}
MapAlignments == {os_page_size, SMALL_PAGE_SIZE, SPAN_SIZE}
\* Where mmap places the region, below a multiple of SPAN_SIZE
MapPlaces == {0, os_page_size, SPAN_SIZE - os_page_size}

MapCall(t) ==
  \E size \in MapSizes, alignment \in MapAlignments, off \in MapPlaces :
    /\ Running /\ pc[t].st = "idle" /\ Cardinality(live) < MaxLiveLife
    /\ LET s == os_mmap(St(t, off), size, alignment)
       IN CallDone(t, s, "map", Arg(size, alignment, 0, NULL))

\* os_munmap(base, offset, mapped_size) with the values of the last map
UnmapCall(t) ==
  /\ Running /\ pc[t].st = "idle"
  /\ ev.op = "map" /\ ev.r # NULL
  /\ LET s == os_munmap(St(t, 0), ev.r, ev.mo, ev.ms)
     IN CallDone(t, s, "free", Arg(ev.arg.size, ev.arg.align, 0, ev.r))

NextMap ==
  \E t \in {1} :
    \/ MapCall(t)
    \/ UnmapCall(t)

SpecMap == InitSeq /\ [][NextMap]_vars

(***************************************************************************)
(* The reallocation of huge blocks of 4 GiB and more.  The sizes of this   *)
(* program are in KiB, so that 2^32 bytes, where (uint32_t)size wraps, is  *)
(* 4 * 1024 * 1024 KiB; size_t does not wrap at these sizes.               *)
(***************************************************************************)
\* (uint32_t)x of a size_t x
Uint32KiB(x) == x % (4 * 1024 * 1024)

\* get_page_aligned_size(size + SPAN_HEADER_SIZE) of line 1313: the header is
\* less than 1 KiB, so the sum is rounded up to the next memory page.
HugeAllocSizeKiB(size) == ((size \div (os_page_size \div 1024)) + 1) * (os_page_size \div 1024)

\* span->mapped_size of the block (line 1323): os_mmap maps alignment bytes
\* more than it was asked for (line 605).
HugeMappedSizeKiB(size) == HugeAllocSizeKiB(size) + SPAN_SIZE \div 1024

\* heap_reallocate_block (1425-1455) with old_size 0 and no flags on the block
\* p = rpmalloc(size) of a huge size, whose span->page_size is (uint32_t)size
\* (line 1320): how many of the first bytes of p the block it returns holds.
\* A block that stays keeps them all; a block that moves gets what memcpy
\* copies (line 1451).
HugeReallocKept(size, new) ==
  LET old_size == Uint32KiB(size)
      new_size == heap_reallocate_new_size(new, old_size)
  IN IF new < HugeMappedSizeKiB(size) THEN size
     ELSE Min(old_size, new_size)

\* Huge sizes below and above 4 GiB
HugeSizesKiB == { g * 1024 * 1024 + e : g \in 0 .. 5, e \in {16 * 1024, 64 * 1024} }

\* p = rpmalloc(size); q = rprealloc(p, new)
HugeRealloc(t) ==
  \E size \in HugeSizesKiB, new \in HugeSizesKiB :
    /\ ev' = [op |-> "realloc_huge", t |-> t, size |-> size, new |-> new,
              moved |-> (new >= HugeMappedSizeKiB(size)), kept |-> HugeReallocKept(size, new)]
    /\ UNCHANGED << page, span, heap, bnext, dirty, data, tls, queue, lock, errno, live, pc,
                    maps_left, global_memory_interface, started, after >>

NextHuge == \E t \in {1} : HugeRealloc(t)

SpecHuge == InitSeq /\ [][NextHuge]_vars

(***************************************************************************)
(* A program that allocates huge blocks, whose regions the OS places on    *)
(* and off the span alignment, reallocates them to sizes around the size   *)
(* of the region, and frees them.                                          *)
(***************************************************************************)
\* The smallest huge size
HugeSize == LARGE_BLOCK_SIZE_LIMIT + 1
\* span->mapped_size of a block of HugeSize (lines 1313-1323, 605)
HugeMapped == get_page_aligned_size(HugeSize + SPAN_HEADER_SIZE) + SPAN_SIZE
\* New sizes: what the block has, what the region holds behind the pointer
\* with and without the padding in front of the span, and the sizes next to
\* span->mapped_size
InPlaceSizes ==
  { HugeSize,
    HugeMapped - SPAN_HEADER_SIZE - os_page_size,
    HugeMapped - SPAN_HEADER_SIZE,
    HugeMapped - 1,
    HugeMapped }

InPlaceMalloc(t) ==
  \E off \in MapOffsets :
    /\ Running /\ pc[t].st = "idle" /\ Cardinality(live) < MaxLiveLife
    /\ LET s == Complete(rpmalloc(St(t, off), HugeSize))
       IN CallDone(t, s, "malloc", Arg(HugeSize, 0, 0, NULL))

InPlaceRealloc(t) ==
  \E ptr \in live, size \in InPlaceSizes, off \in MapOffsets :
    /\ Running /\ pc[t].st = "idle"
    /\ LET s == Complete(rprealloc(St(t, off), ptr, size))
       IN CallDone(t, s, "realloc", Arg(size, 0, 0, ptr))

NextInPlace ==
  \E t \in {1} :
    \/ InPlaceMalloc(t)
    \/ InPlaceRealloc(t)
    \/ CallFree(t)

SpecInPlace == InitSeq /\ [][NextInPlace]_vars

(***************************************************************************)
(* The retry loops, one memory access a step: the compare-and-swap loops   *)
(* on a page's thread_free word (rpmalloc.c 862-874 and 888-900), on a     *)
(* heap's page_free_thread (909-914 and 1262-1267), and the spin lock of   *)
(* the heap queue (1104-1165).  Every thread allocates, frees and          *)
(* finalizes; the program starts MaxStarted operations altogether.  A      *)
(* compare-and-swap fails when the word holds another value than the one   *)
(* expected, and then loads the value it holds.                            *)
(***************************************************************************)
LoopSizes == {96 * SMALL_GRANULARITY}
\* The threads that allocate and finalize, and the threads that free blocks of
\* other threads' pages
Allocators == {1, 2}
Pushers == {2, 3}
LoopClass(size) ==
  IF size <= SMALL_GRANULARITY * 16 THEN get_size_class_tiny(size) ELSE get_size_class(size)

InitLoops == Start /\ maps_left = MaxMapsLoops

\* The operation counts as started
LoopStart(s) == [s EXCEPT !.started = @ + 1]

\* A step inside an operation, which goes on at q
LoopStep(t, s, q) ==
  /\ Commit(s)
  /\ Tick
  /\ pc' = [pc EXCEPT ![t] = q]
  /\ ev' = NoEv
  /\ UNCHANGED live

LoopReturn(t, s, op, arg) ==
  /\ Commit(s)
  /\ Tick
  /\ pc' = [pc EXCEPT ![t] = Idle]
  /\ ev' = Ev(op, s, arg, FALSE, Same(s))
  /\ UNCHANGED live

\* atomic_compare_exchange_weak(&page->thread_free, &prev_thread_free, thread_free)
\* of line 895 exchanges
page_put_thread_free_store(s, p, prev_thread_free) == TRUE
page_put_thread_free_cas(s, p, prev_thread_free) == s.page[p].thread_free = prev_thread_free

\* atomic_compare_exchange_strong(&global_heap_lock, &lock, this_lock) of line
\* 1108 exchanges
heap_lock_take(s) == TRUE
heap_lock_cas(s) == s.lock = 0

\* heap_lock_release: atomic_store(&global_heap_lock, 0) of line 1118
heap_lock_keep(s) == s
heap_lock_release(s) == [s EXCEPT !.lock = 0]

\* rpfree of a block in a page of another thread: rpmalloc.c 890-894
PushLoad(t, most) ==
  \E ptr \in live :
    /\ Running /\ pc[t].st = "idle" /\ started < most
    /\ span[SlotOf(ptr)].page_type <= PAGE_LARGE
    /\ page[PageOf(ptr)].owner_thread \notin {0, t}
    /\ t \in Pushers
    /\ LET p == PageOf(ptr)
           block == BlockOf(ptr)
           prev_thread_free == page[p].thread_free
           s0 == LoopStart(St(t, 0))
           s == [s0 EXCEPT !.bnext = SetNext(@, block,
                                       page_block_from_thread_free_list(s0, p, prev_thread_free))]
       IN /\ Commit(s)
          /\ Tick
          /\ live' = live \ {ptr}
          /\ ev' = NoEv
          /\ pc' = [pc EXCEPT ![t] = [st |-> "push_cas", page |-> p, block |-> block,
                                      seen |-> prev_thread_free, arg |-> Arg(0, 0, 0, ptr)]]

\* rpmalloc.c 895-900: one turn of the loop
PushCas(t) ==
  /\ Running /\ pc[t].st = "push_cas"
  /\ LET q == pc[t]
         s0 == St(t, 0)
         now == page[q.page].thread_free
         list_size == q.seen.cnt + 1
     IN IF page_put_thread_free_cas(s0, q.page, q.seen)
          THEN LoopStep(t, [s0 EXCEPT !.page[q.page].thread_free =
                                        page_block_to_thread_free_list(
                                          page_block_index(s0, q.page, q.block), list_size),
                                      !.page[q.page].pushed = @ \cup {q.block}],
                        [st |-> "push_rest", page |-> q.page, list_size |-> list_size, arg |-> q.arg])
          ELSE LoopStep(t, [s0 EXCEPT !.bnext = SetNext(@, q.block,
                                                  page_block_from_thread_free_list(s0, q.page, now))],
                        [q EXCEPT !.seen = now])

\* rpmalloc.c 901-909
PushRest(t) ==
  /\ Running /\ pc[t].st = "push_rest"
  /\ LET q == pc[t]
         s0 == St(t, 0)
         s1 == page_decommit_memory_pages(s0, q.page)
         prev_head == s1.heap[s1.page[q.page].heap].page_free_thread[s1.page[q.page].page_type]
     IN IF page_put_thread_free_cleans(s0, q.page, q.list_size)
          THEN LoopStep(t, [s1 EXCEPT !.page[q.page].next = prev_head],
                        [st |-> "reclaim_cas", page |-> q.page, seen |-> prev_head, arg |-> q.arg])
          ELSE LoopReturn(t, s0, "free", q.arg)

\* rpmalloc.c 910-914: one turn of the loop
ReclaimCas(t) ==
  /\ Running /\ pc[t].st = "reclaim_cas"
  /\ LET q == pc[t]
         s0 == St(t, 0)
         h == page[q.page].heap
         ty == page[q.page].page_type
         now == heap[h].page_free_thread[ty]
     IN IF now = q.seen
          THEN LoopReturn(t, [s0 EXCEPT !.heap[h].page_free_thread[ty] = q.page], "free", q.arg)
          ELSE LoopStep(t, [s0 EXCEPT !.page[q.page].next = now], [q EXCEPT !.seen = now])

\* rpfree by the thread the page's heap is bound to
LoopFree(t, most) ==
  \E ptr \in live :
    /\ Running /\ pc[t].st = "idle" /\ started < most
    /\ span[SlotOf(ptr)].page_type <= PAGE_LARGE
    /\ page[PageOf(ptr)].owner_thread = t
    /\ tls[t] = page[PageOf(ptr)].heap
    /\ LET s == Complete(rpfree(LoopStart(St(t, 0)), ptr))
       IN FreeDone(t, s, ptr)

\* heap_get_page comes to the load of heap->page_free_thread (line 1262), and
\* the value is not 0.
Drains(t, size) ==
  LET h == tls[t]
      size_class == LoopClass(size)
      page_type == get_page_type(size_class)
  IN /\ Get(heap[h].local_free, size_class) = NULL
     /\ Get(heap[h].page_available, size_class) = NULL
     /\ heap[h].page_free[page_type] = NULL
     /\ heap[h].page_free_thread[page_type] # NULL

\* rpmalloc by a thread that has a heap, up to its return or to line 980
LoopMalloc(t, sizes, most) ==
  \E size \in sizes :
    /\ Running /\ pc[t].st = "idle" /\ started < most
    /\ Cardinality(live) < MaxLiveLoops
    /\ tls[t] # global_heap_default
    /\ ~ Drains(t, size)
    /\ LET s == rpmalloc(LoopStart(St(t, 0)), size)
       IN AllocDone(t, s, "malloc", Arg(size, 0, 0, NULL))

\* rpmalloc up to the load of line 1262
DrainLoad(t, sizes, most) ==
  \E size \in sizes :
    /\ Running /\ pc[t].st = "idle" /\ started < most
    /\ Cardinality(live) < MaxLiveLoops
    /\ tls[t] # global_heap_default
    /\ Drains(t, size)
    /\ LoopStep(t, LoopStart(St(t, 0)),
                [st |-> "drain_cas", size |-> size,
                 seen |-> heap[tls[t]].page_free_thread[get_page_type(LoopClass(size))]])

\* rpmalloc.c 1264-1267, one turn of the loop, and the rest of the allocation
DrainCas(t) ==
  /\ Running /\ pc[t].st = "drain_cas"
  /\ LET q == pc[t]
         h == tls[t]
         size_class == LoopClass(q.size)
         now == heap[h].page_free_thread[get_page_type(size_class)]
     IN IF now = q.seen
          THEN AllocDone(t, heap_allocate_block_page(
                              heap_get_page_exchanged(St(t, 0), h, size_class, q.seen), 0),
                         "malloc", Arg(q.size, 0, 0, NULL))
          ELSE LoopStep(t, St(t, 0), [q EXCEPT !.seen = now])

\* The allocation waits with the thread_free word it loaded
WithSeen(q, st, seen) ==
  [st |-> st, seen |-> seen, pend |-> q.pend, op |-> q.op, arg |-> q.arg, zeroed |-> q.zeroed,
   foreign |-> q.foreign, failed |-> q.failed, src |-> q.src, pg |-> q.pg, mapped |-> q.mapped]

\* rpmalloc.c 980-981 and 864-865: the load of page->thread_free
AdoptLoad(t) ==
  /\ Running /\ pc[t].st = "allocate"
  /\ LET q == pc[t].pend
         thread_free == page[q.page].thread_free
     IN IF thread_free = TF0
          THEN AllocDone(t, page_allocate_block_done(Resume(t), q.page, q.block, q.is_zero, q.zero),
                         pc[t].op, pc[t].arg)
          ELSE LoopStep(t, St(t, 0), WithSeen(pc[t], "adopt_cas", thread_free))

\* rpmalloc.c 867-872, one turn of the loop, and 983-1002
AdoptCas(t) ==
  /\ Running /\ pc[t].st = "adopt_cas"
  /\ LET q == pc[t].pend
         now == page[q.page].thread_free
     IN IF now = pc[t].seen
          THEN AllocDone(t, page_allocate_block_done(
                              page_adopt_thread_free_exchanged(Resume(t), q.page, pc[t].seen),
                              q.page, q.block, q.is_zero, q.zero),
                         pc[t].op, pc[t].arg)
          ELSE LoopStep(t, St(t, 0), WithSeen(pc[t], "adopt_cas", now))

\* rpmalloc by a thread without a heap, up to heap_lock_acquire in
\* heap_allocate (line 1145)
BindStart(t, sizes, most) ==
  \E size \in sizes :
    /\ Running /\ pc[t].st = "idle" /\ started < most
    /\ Cardinality(live) < MaxLiveLoops
    /\ tls[t] = global_heap_default
    /\ t \in Allocators
    /\ LoopStep(t, rpmalloc_initialize(LoopStart(St(t, 0)), NoArgument),
                [st |-> "lock", then |-> "pop_read", size |-> size, heap |-> NULL])

\* rpmalloc_thread_finalize up to heap_lock_acquire in heap_release (line 1161)
FinalizeStart(t, most) ==
  /\ Running /\ pc[t].st = "idle" /\ started < most
  /\ IF tls[t] = global_heap_default
       THEN LoopReturn(t, LoopStart(St(t, 0)), "finalize", Arg(0, 0, 0, NULL))
       ELSE LoopStep(t, set_thread_heap(LoopStart(St(t, 0)), global_heap_default),
                     [st |-> "lock", then |-> "push_next", size |-> 0, heap |-> tls[t]])

\* heap_lock_acquire (1104-1112): the exchange that succeeds
LockAcquire(t) ==
  /\ Running /\ pc[t].st = "lock"
  /\ heap_lock_cas(St(t, 0))
  /\ LoopStep(t, [St(t, 0) EXCEPT !.lock = t], [pc[t] EXCEPT !.st = pc[t].then])

\* heap = global_heap_queue (line 1146)
PopRead(t) ==
  /\ Running /\ pc[t].st = "pop_read"
  /\ LoopStep(t, St(t, 0), [pc[t] EXCEPT !.st = "pop_write", !.heap = queue])

\* global_heap_queue = heap ? heap->next : 0 (line 1147)
PopWrite(t) ==
  /\ Running /\ pc[t].st = "pop_write"
  /\ LoopStep(t, [St(t, 0) EXCEPT !.queue = IF pc[t].heap # NULL THEN heap[pc[t].heap].next ELSE NULL],
              [pc[t] EXCEPT !.st = "unlock"])

\* heap->next = global_heap_queue (line 1162)
PushNext(t) ==
  /\ Running /\ pc[t].st = "push_next"
  /\ LoopStep(t, [St(t, 0) EXCEPT !.heap[pc[t].heap].next = queue], [pc[t] EXCEPT !.st = "push_head"])

\* global_heap_queue = heap (line 1163)
PushHead(t) ==
  /\ Running /\ pc[t].st = "push_head"
  /\ LoopStep(t, [St(t, 0) EXCEPT !.queue = pc[t].heap], [pc[t] EXCEPT !.st = "unlock"])

\* heap_lock_release (1114-1119); rpmalloc_thread_finalize returns after it
Unlock(t) ==
  /\ Running /\ pc[t].st = "unlock"
  /\ LET s == heap_lock_release(St(t, 0))
     IN IF pc[t].then = "pop_read"
          THEN LoopStep(t, s, [pc[t] EXCEPT !.st = "bind_rest"])
          ELSE LoopReturn(t, s, "finalize", Arg(0, 0, 0, NULL))

\* The rest of heap_allocate (1150-1156), set_thread_heap, the rest of
\* heap_get_span (1213-1242) and of the allocation
BindRest(t) ==
  /\ Running /\ pc[t].st = "bind_rest"
  /\ LET q == pc[t]
         size_class == LoopClass(q.size)
     IN \E a \in {heap_allocate_own(IF q.heap # NULL THEN Ret(St(t, 0), q.heap)
                                    ELSE heap_allocate_new(St(t, 0)))} :
        \E b \in {heap_get_span_map(set_thread_heap_allocated(a), get_page_type(size_class))} :
        \E c \in {heap_get_page_span(b, size_class)} :
        \E d \in {heap_allocate_block_page(c, 0)} :
          AllocDone(t, d, "malloc", Arg(q.size, 0, 0, NULL))

\* The program that requests the sizes and starts at most most operations
LoopsProgram(sizes, most) ==
  \E t \in Threads :
    \/ PushLoad(t, most)
    \/ PushCas(t)
    \/ PushRest(t)
    \/ ReclaimCas(t)
    \/ LoopFree(t, most)
    \/ LoopMalloc(t, sizes, most)
    \/ DrainLoad(t, sizes, most)
    \/ DrainCas(t)
    \/ AdoptLoad(t)
    \/ AdoptCas(t)
    \/ BindStart(t, sizes, most)
    \/ FinalizeStart(t, most)
    \/ LockAcquire(t)
    \/ PopRead(t)
    \/ PopWrite(t)
    \/ PushNext(t)
    \/ PushHead(t)
    \/ Unlock(t)
    \/ BindRest(t)

NextLoops == LoopsProgram(LoopSizes, MaxStarted)

\* The steps of thread t inside an operation
LoopGoOn(t) ==
  \/ PushCas(t) \/ PushRest(t) \/ ReclaimCas(t)
  \/ DrainCas(t) \/ AdoptLoad(t) \/ AdoptCas(t)
  \/ LockAcquire(t) \/ PopRead(t) \/ PopWrite(t) \/ PushNext(t) \/ PushHead(t) \/ Unlock(t)
  \/ BindRest(t)

SpecLoops == InitLoops /\ [][NextLoops]_vars

\* A shorter program with pages of MaxBlocks blocks, where every thread that is
\* inside an operation is scheduled again and again.
FairSizes == {SMALL_BLOCK_SIZE_LIMIT}
NextFair == LoopsProgram(FairSizes, MaxStartedFair)
\* Thread t is inside an operation and can take its next step: every step of
\* LoopGoOn is total on its position, and only heap_lock_acquire waits, for
\* the lock to be free.  This is ENABLED <<LoopGoOn(t)>>_vars.
LoopGoOnEnabled(t) ==
  /\ Running
  /\ pc[t].st \in {"push_cas", "push_rest", "reclaim_cas", "drain_cas", "allocate", "adopt_cas",
                   "lock", "pop_read", "pop_write", "push_next", "push_head", "unlock", "bind_rest"}
  /\ pc[t].st = "lock" => heap_lock_cas(St(t, 0))

\* Weak fairness of the steps of thread t, WF_vars(LoopGoOn(t)), written out
\* with the enabling condition above
Scheduled(t) == []<>(~ LoopGoOnEnabled(t)) \/ []<><<LoopGoOn(t)>>_vars

SpecLoopsFair == InitLoops /\ [][NextFair]_vars /\ \A t \in Threads : Scheduled(t)

(***************************************************************************)
(* A producer and two consumers: thread 1 allocates the blocks of a page   *)
(* and hands them to threads 2 and 3, which free them while thread 1       *)
(* allocates blocks of another size class of the same page type.           *)
(***************************************************************************)
\* The size the producer fills a page with, and the sizes it requests afterwards
FillSize == 96 * SMALL_GRANULARITY
ReclaimSizes == {FillSize, SMALL_BLOCK_SIZE_LIMIT}

\* Thread t calls rpmalloc(FillSize) MaxBlocksLoops times before any other
\* thread runs: one full page. Or it goes on with rpmalloc(SMALL_BLOCK_SIZE_LIMIT)
\* MaxBlocks times, a second full page, and thread 2 frees the blocks of the
\* first page before any other thread runs.
Fill(t) ==
  /\ Running /\ started = 0 /\ t = 1
  /\ \A u \in Threads : pc[u].st = "idle"
  /\ \E a \in {Complete(rpmalloc(St(t, 0), FillSize))} :
     \E b \in {Complete(rpmalloc([a EXCEPT !.r = NULL], FillSize))} :
     \E c \in {Complete(rpmalloc([b EXCEPT !.r = NULL], FillSize))} :
       \/ /\ Commit([c EXCEPT !.started = MaxBlocksLoops])
          /\ Tick
          /\ pc' = pc
          /\ ev' = Ev("malloc", c, Arg(FillSize, 0, 0, NULL), FALSE, FALSE)
          /\ live' = {a.r, b.r, c.r} \ {NULL}
       \/ \E d \in {Complete(rpmalloc([c EXCEPT !.r = NULL], SMALL_BLOCK_SIZE_LIMIT))} :
          \E e \in {Complete(rpmalloc([d EXCEPT !.r = NULL], SMALL_BLOCK_SIZE_LIMIT))} :
          \E f \in {Complete(rpfree([e EXCEPT !.r = NULL, !.me = 2], a.r))} :
          \E g \in {Complete(rpfree(f, b.r))} :
          \E h \in {Complete(rpfree(g, c.r))} :
            /\ Commit([h EXCEPT !.started = MaxStartedReclaim - MaxBlocksLoops])
            /\ Tick
            /\ pc' = pc
            /\ ev' = Ev("free", h, Arg(0, 0, 0, c.r), FALSE, FALSE)
            /\ live' = {d.r, e.r} \ {NULL}

\* The producer fills the page first; then the threads run the program of the
\* retry loops.
NextReclaim ==
  \E t \in Threads :
    \/ Fill(t)
    \/ started > 0 /\ PushLoad(t, MaxStartedReclaim)
    \/ started > 0 /\ PushCas(t)
    \/ started > 0 /\ PushRest(t)
    \/ started > 0 /\ ReclaimCas(t)
    \/ started > 0 /\ LoopFree(t, MaxStartedReclaim)
    \/ started > 0 /\ LoopMalloc(t, ReclaimSizes, MaxStartedReclaim)
    \/ started > 0 /\ DrainLoad(t, ReclaimSizes, MaxStartedReclaim)
    \/ started > 0 /\ DrainCas(t)
    \/ started > 0 /\ AdoptLoad(t)
    \/ started > 0 /\ AdoptCas(t)
    \/ started > 0 /\ BindStart(t, ReclaimSizes, MaxStartedReclaim)
    \/ started > 0 /\ FinalizeStart(t, MaxStartedReclaim)
    \/ started > 0 /\ LockAcquire(t)
    \/ started > 0 /\ PopRead(t)
    \/ started > 0 /\ PopWrite(t)
    \/ started > 0 /\ PushNext(t)
    \/ started > 0 /\ PushHead(t)
    \/ started > 0 /\ Unlock(t)
    \/ started > 0 /\ BindRest(t)

SpecReclaim == InitLoops /\ [][NextReclaim]_vars

(***************************************************************************)
(* An owner that goes on allocating: thread 1 allocates blocks of one size *)
(* class, the other threads free up to two of them, and thread 1 goes on   *)
(* with rpmalloc of that size and rpfree of what these calls return.       *)
(***************************************************************************)
\* The page the owner's first allocations come from, and its blocks
FilledPage == SPAN_SIZE
FilledBlock(i) == FilledPage + PAGE_HEADER_SIZE + i * FillSize

\* Thread t calls rpmalloc(FillSize) twice or MaxBlocksLoops times: the page
\* is left with a block to spare, or full.
StarveFill(t) ==
  /\ Running /\ started = 0 /\ t = 1
  /\ \E a \in {Complete(rpmalloc(St(t, 0), FillSize))} :
     \E b \in {Complete(rpmalloc([a EXCEPT !.r = NULL], FillSize))} :
     \E c \in {b, Complete(rpmalloc([b EXCEPT !.r = NULL], FillSize))} :
       /\ Commit([c EXCEPT !.started = 1])
       /\ Tick
       /\ pc' = pc
       /\ ev' = Ev("malloc", c, Arg(FillSize, 0, 0, NULL), FALSE, FALSE)
       /\ live' = {a.r, b.r, c.r} \ {NULL}
\* The owner requests one more block of the size
StarveMalloc(t) ==
  /\ Running /\ started > 0 /\ t = 1
  /\ Cardinality(live) < MaxLiveStarve
  /\ \E s \in {Complete(rpmalloc(St(t, 0), FillSize))} :
       AllocDone(t, s, "malloc", Arg(FillSize, 0, 0, NULL))
\* The owner frees a block of another page than the filled one
StarveFree(t) ==
  \E ptr \in live :
    /\ Running /\ started > 0 /\ t = 1
    /\ PageOf(ptr) # FilledPage
    /\ page[PageOf(ptr)].owner_thread = t
    /\ \E s \in {Complete(rpfree(St(t, 0), ptr))} : FreeDone(t, s, ptr)
\* The other threads free with the steps of the retry loops; a page of
\* MaxBlocksLoops blocks is never freed whole by MaxStartedStarve - 1 calls.
NextStarve ==
  \E t \in Threads :
    \/ StarveFill(t)
    \/ started > 0 /\ PushLoad(t, MaxStartedStarve)
    \/ PushCas(t)
    \/ PushRest(t)
    \/ StarveMalloc(t)
    \/ StarveFree(t)
\* The owner goes on: its next rpmalloc, and the rpfree that makes room for
\* it, are taken in the end.
\* ENABLED <<StarveMalloc(1)>>_vars and ENABLED <<StarveFree(1)>>_vars: both
\* calls return, and both change live.
StarveMallocEnabled == Running /\ started > 0 /\ Cardinality(live) < MaxLiveStarve
StarveFreeEnabled ==
  /\ Running /\ started > 0
  /\ \E ptr \in live : PageOf(ptr) # FilledPage /\ page[PageOf(ptr)].owner_thread = 1
\* Weak fairness of the owner's calls, WF_vars(StarveMalloc(1)) and
\* WF_vars(StarveFree(1)), written out with the enabling conditions above
GoesOn ==
  /\ []<>(~ StarveMallocEnabled) \/ []<><<StarveMalloc(1)>>_vars
  /\ []<>(~ StarveFreeEnabled) \/ []<><<StarveFree(1)>>_vars
\* A thread inside rpfree takes its next step, and the owner goes on: its
\* next rpmalloc, and the rpfree that makes room for it, are taken in the end.
SpecStarve ==
  /\ InitLoops /\ [][NextStarve]_vars
  /\ \A t \in Pushers : WF_vars(PushCas(t) \/ PushRest(t))
  /\ GoesOn

Next ==
  \E t \in 1 .. NCallers :
    \/ Malloc(t)
    \/ Calloc(t)
    \/ AllocFinish(t)
    \/ Free(t)
    \/ FreeRead(t)
    \/ FreeWrite(t)
    \/ FreeRest(t)
    \/ ThreadFinalize(t)

Spec == Init /\ [][Next]_vars

(***************************************************************************)
(* Properties of Spec                                                      *)
(***************************************************************************)
AllocOps == {"malloc", "calloc"}

\* C1: an allocation never returns a block that is live: between the return of
\* a block by an allocation and its free no other allocation returns it.
C1_NoLiveBlockReturned == ev.op \in AllocOps => ~ ev.dup

C4_SoleWriter == ev.foreign = {}

\* C8: an allocation whose memory map was refused returns null with errno
\* ENOMEM and leaves the allocator's state as it was before the call.
C8_MapFailure ==
  (ev.op \in AllocOps /\ ev.failed) =>
    (~ ev.crash /\ ev.r = NULL /\ errno[ev.t] = ENOMEM /\ ev.same)

(***************************************************************************)
(* Properties of SpecSeq                                                   *)
(***************************************************************************)
\* C6: a reallocation with GROW_OR_FAIL that cannot be done in place returns
\* null, allocates nothing and leaves the original block as it was: not freed,
\* still counted in its page's block_used.
C6_GrowOrFail ==
  (/\ ev.op \in {"realloc", "aligned_realloc"}
   /\ HasFlag(ev.arg.flags, RPMALLOC_GROW_OR_FAIL)
   /\ ev.r = NULL) => ev.same

\* C9: for every request size n and every non-null p = alloc(n),
\* usable_size(p) >= n, for class backed and for huge blocks.
C9_UsableSize ==
  (ev.op = "malloc" /\ ev.r # NULL) => ev.usable >= ev.arg.size

\* C10: a non-null pointer returned by aligned_alloc(a, n), a a power of two
\* up to 131072, is a multiple of a.
C10_Aligned ==
  (ev.op = "aligned_alloc" /\ ev.r # NULL) => ev.r % ev.arg.align = 0

\* An aligned allocation with the largest alignment returned a pointer that
\* was shifted inside its block.
C10_Witness ==
  /\ ev.op = "aligned_alloc" /\ ev.r # NULL
  /\ ev.arg.align = MAX_ALIGNMENT \div 2
  /\ page[PageOf(ev.r)].has_aligned_block = 1
  /\ BlockOf(ev.r) # ev.r

(***************************************************************************)
(* Properties of SpecReuse                                                 *)
(***************************************************************************)
\* C11: on one thread, p = alloc(n); free(p); alloc(n) returns p again, for
\* every size n a size class serves, when the page of p was not full.
C11_Reuse ==
  [][(/\ ev.op = "free" /\ ev'.op = "malloc"
      /\ ev'.arg.size = ev.arg.size /\ ev'.r # NULL
      /\ page[PageOf(ev.arg.ptr)].block_used + 1 < page[PageOf(ev.arg.ptr)].block_count)
     => ev'.r = ev.arg.ptr]_vars

(***************************************************************************)
(* Properties of SpecArgs                                                  *)
(***************************************************************************)
AlignedOps == {"aligned_alloc", "memalign", "aligned_calloc"}
IsPowerOfTwo(x) == x > 0 /\ BitAnd(x, x - 1) = 0
\* The call returned null with errno EINVAL and changed nothing.
Refused == ev.r = NULL /\ errno[ev.t] = EINVAL /\ ev.same

\* C12: calloc(n, sz) whose product n * sz does not fit size_t returns null
\* with errno EINVAL and allocates nothing.
C12_CallocOverflow ==
  (ev.op = "calloc" /\ ev.arg.num * ev.arg.size >= WORD_MOD) => Refused

\* C13: an aligned allocation whose alignment is above the granularity and is
\* no power of two returns null with errno EINVAL and allocates nothing.
C13_NotPowerOfTwo ==
  (/\ ev.op \in AlignedOps
   /\ ev.arg.align > SMALL_GRANULARITY
   /\ ~ IsPowerOfTwo(ev.arg.align)) => Refused

\* C14: an aligned allocation with an alignment of MAX_ALIGNMENT (256 KiB) or
\* more returns null with errno EINVAL; heaps, pages and spans are as before
\* the call and nothing was mapped.
C14_TooLarge ==
  (ev.op \in AlignedOps /\ ev.arg.align >= MAX_ALIGNMENT) =>
    (ev.r = NULL /\ errno[ev.t] = EINVAL /\ ev.same /\ ~ ev.crash)

\* A refused aligned allocation by a thread that has a heap of its own, with
\* the smallest alignment that is refused.
C14_Witness ==
  /\ ev.op \in AlignedOps /\ ev.arg.align = MAX_ALIGNMENT /\ ev.r = NULL
  /\ tls[ev.t] # global_heap_default
  /\ \E k \in SpanSlots : span[k].mapped

\* C15: posix_memalign returns 0 and stores a pointer aligned to align on
\* success, EINVAL for an invalid argument (no place for the pointer, an
\* alignment that is too large or no power of two), and ENOMEM only when
\* memory could not be obtained.
C15_PosixMemalign ==
  ev.op = "posix_memalign" =>
    /\ ev.code = 0 => (ev.r # NULL /\ ev.r % ev.arg.align = 0)
    /\ (\/ ev.arg.out = NULL
        \/ ev.arg.align >= MAX_ALIGNMENT
        \/ ~ IsPowerOfTwo(ev.arg.align)) => ev.code = EINVAL
    /\ ev.code = ENOMEM => ev.failed

(***************************************************************************)
(* Properties of SpecLife                                                  *)
(***************************************************************************)
\* The pointer lies in a huge span.
IsHuge(ptr) == span[SlotOf(block_get_span(ptr))].page_type = PAGE_HUGE

C17_ThreadInitialized ==
  /\ ev.op = "none" => rpmalloc_is_thread_initialized(St(1, 0)) = 0
  /\ (ev.op = "malloc" /\ ev.r # NULL) => rpmalloc_is_thread_initialized(St(ev.t, 0)) = 1
  /\ ev.op = "finalize" => rpmalloc_is_thread_initialized(St(ev.t, 0)) = 0

(***************************************************************************)
(* Properties of SpecInit                                                  *)
(***************************************************************************)
Members == {"memory_map", "memory_commit", "memory_decommit", "memory_unmap"}
InUse(mi) == IF mi.ptr = "default" THEN mi.dflt ELSE mi.user

\* C18: after rpmalloc_initialize(interface) all four memory operations in use
\* are set; when the structure supplies only memory_map and memory_unmap,
\* memory_commit and memory_decommit are the OS defaults and the supplied
\* memory_map and memory_unmap are kept; a call while initialized changes
\* nothing.
C18_Initialize ==
  [][ev'.op = "initialize" =>
       /\ global_memory_interface'.ptr # "null"
       /\ \A m \in Members : InUse(global_memory_interface')[m] # "null"
       /\ (global_memory_interface.ptr = "null" /\ ev'.arg.ptr # NULL /\ ev'.arg.flags = 9) =>
            InUse(global_memory_interface') =
              [memory_map |-> "user", memory_commit |-> "os",
               memory_decommit |-> "os", memory_unmap |-> "user"]
       /\ global_memory_interface.ptr # "null" =>
            global_memory_interface' = global_memory_interface
    ]_vars

(***************************************************************************)
(* Properties of SpecMap                                                   *)
(***************************************************************************)
\* C20: a successful default map(size, alignment) with a power of two
\* alignment returns a base that is a multiple of alignment, an offset in
\* [0, alignment) and mapped_size = size + alignment, with [base, base + size)
\* inside the reserved region; unmap(base, offset, mapped_size) releases
\* exactly the region the map reserved.
C20_MapUnmap ==
  /\ (ev.op = "map" /\ ev.r # NULL) =>
       /\ ev.r % ev.arg.align = 0
       /\ ev.mo >= 0 /\ ev.mo < ev.arg.align
       /\ ev.ms = ev.arg.size + ev.arg.align
       /\ ev.os.raw = ev.r - ev.mo
       /\ ev.os.raw <= ev.r /\ ev.r + ev.arg.size <= ev.os.raw + ev.os.rlen
  /\ (ev.op = "free" /\ ev.unmapped = 1) =>
       /\ ev.os.exact
       /\ ev.os.ul = ev.arg.size + ev.arg.align

(***************************************************************************)
(* Properties of SpecHuge                                                  *)
(***************************************************************************)
\* C7: realloc(p, m) of a valid block p with old_size bytes of contents and
\* m >= old_size, without NO_PRESERVE, returns a block whose first old_size
\* bytes are the contents of p, whether the block stays, moves back to its
\* origin, or is copied to a block of another class or to a huge mapping.
C7_ReallocPreserves ==
  (ev.op = "realloc_huge" /\ ev.new >= ev.size) => ev.kept >= ev.size

(***************************************************************************)
(* Properties of SpecLoops                                                 *)
(***************************************************************************)
\* More than the blocks of any page, and than the heaps
ListBound == MaxBlocksLinked + 1

\* The blocks of the list that starts at block b, and how many they are
RECURSIVE Reach(_, _, _)
Reach(f, b, n) ==
  IF b = NULL \/ n = 0 THEN {}
  ELSE {b} \cup Reach(f, IF b \in DOMAIN f THEN f[b] ELSE NULL, n - 1)
RECURSIVE Length(_, _, _)
Length(f, b, n) ==
  IF b = NULL \/ n = 0 THEN 0
  ELSE 1 + Length(f, IF b \in DOMAIN f THEN f[b] ELSE NULL, n - 1)

ThreadFreeHead(p) == page_block_from_thread_free_list(St(1, 0), p, page[p].thread_free)

ThreadFreeInv ==
  \A p \in PageAddrs :
    page[p].block_size # 0 =>
      /\ Length(bnext, ThreadFreeHead(p), ListBound) = page[p].thread_free.cnt
      /\ Reach(bnext, ThreadFreeHead(p), ListBound) = page[p].pushed
      /\ Cardinality(page[p].pushed) = page[p].thread_free.cnt
      /\ (page[p].thread_free = TF0) <=> (page[p].pushed = {})
      /\ page[p].pushed \cap live = {}

\* The heaps of the queue, in order
RECURSIVE HeapChain(_, _)
HeapChain(h, n) ==
  IF h = NULL \/ n = 0 THEN << >> ELSE << h >> \o HeapChain(heap[h].next, n - 1)
Queued == HeapChain(queue, NThreads + 1)
BoundTo(h) == { t \in Threads : tls[t] = h }
\* The threads between heap_lock_acquire and heap_lock_release
Holders == { t \in Threads : pc[t].st \in {"pop_read", "pop_write", "push_next", "push_head", "unlock"} }
\* The threads that took a heap from the queue and have not bound it yet
Takers == { t \in Threads : pc[t].st \in {"unlock", "bind_rest"} /\ pc[t].then = "pop_read" /\ pc[t].heap # NULL }

HeapQueueInv ==
  /\ Len(Queued) <= NThreads
  /\ \A i, j \in 1 .. Len(Queued) : i # j => Queued[i] # Queued[j]
  /\ \A h \in HeapIds :
       /\ Cardinality(BoundTo(h)) <= 1
       /\ ~ ((\E i \in 1 .. Len(Queued) : Queued[i] = h) /\ BoundTo(h) # {})
  /\ \A t, u \in Takers : t # u => pc[t].heap # pc[u].heap
  /\ \A t \in Takers : BoundTo(pc[t].heap) = {}
  /\ Cardinality(Holders) <= 1
  /\ \A t \in Holders : lock = t

\* The adoption whose exchange succeeds receives the list that was pushed
AdoptionExact ==
  \A t \in Threads :
    (pc[t].st = "adopt_cas" /\ pc'[t].st # "adopt_cas") =>
      /\ Reach(bnext', page'[pc[t].pend.page].local_free, ListBound) = page[pc[t].pend.page].pushed
      /\ page'[pc[t].pend.page].local_free_count = Cardinality(page[pc[t].pend.page].pushed)

\* C3: for any interleaving of pushes by threads that do not own the page and
\* adoptions by the thread that does, no pushed block is lost or duplicated:
\* an adoption receives exactly the blocks pushed since the one before, the
\* count of the thread_free word is the number of blocks reachable from its
\* head, and the word is 0 exactly when the list is empty.
C3_ThreadFree == [] ThreadFreeInv /\ [][AdoptionExact]_vars

\* A push is about to fail its exchange, because of the push of another block
\* of the page, while the owner is about to adopt the list.
C3_Witness ==
  \E t, u \in Threads :
    /\ pc[t].st = "push_cas" /\ pc[u].st = "adopt_cas"
    /\ pc[t].page = pc[u].pend.page
    /\ page[pc[t].page].thread_free # pc[t].seen
    /\ page[pc[t].page].thread_free = pc[u].seen
    /\ pc[t].seen # TF0

\* C5: a heap is in the queue of free heaps at most once, or bound to at most
\* one thread, never both; threads that resolve a heap at the same time get
\* different heaps; finalizing twice enqueues the heap once; only the one
\* holder of the global heap lock reads and writes the queue.
C5_HeapQueue == HeapQueueInv

\* A thread waits for the lock while another, inside the lock, has read the
\* queue with a heap in it.
C5_Witness ==
  \E t, u \in Threads :
    /\ pc[t].st = "lock" /\ pc[t].then = "pop_read"
    /\ pc[u].st = "pop_write" /\ pc[u].heap # NULL
    /\ lock = u

RECURSIVE ChainOf(_, _, _)
ChainOf(pg, p, n) ==
  IF p = NULL \/ n = 0 \/ p \notin DOMAIN pg THEN {} ELSE {p} \cup ChainOf(pg, pg[p].next, n - 1)
PageChain(p, n) == ChainOf(page, p, n)
\* The pages on a page_free_thread stack
OnPageFreeThread ==
  UNION { PageChain(heap[h].page_free_thread[ty], Cardinality(PageAddrs))
          : h \in HeapIds, ty \in PageTypes }
\* The blocks of page p that are on the fast track list of its heap
OnHeapLocalFree(p) ==
  { b \in Reach(bnext, Get(heap[page[p].heap].local_free, page[p].size_class), ListBound) :
      b >= p /\ b < p + PageSizeOfType(page[p].page_type) }

\* A page on a page_free_thread stack is full, all its blocks are on its
\* thread-free list, none is live and none is on a free list of the owner.
Reclaimed(p) ==
  /\ page[p].is_full # 0
  /\ page[p].thread_free.cnt = page[p].block_count
  /\ \A ptr \in live : PageOf(ptr) # p
  /\ page[p].local_free = NULL
  /\ OnHeapLocalFree(p) = {}

\* C21: a page is pushed on the page_free_thread stack of its heap once in a
\* fill cycle, by the push that brings the count of the thread-free list to
\* block_count: the thread that is about to push the page (line 910) holds a
\* page that is full, not yet on the stack, with all its blocks on the
\* thread-free list, and a page on the stack has no live block and no block on
\* a free list of the owner.
C21_Reclaim ==
  /\ \A p \in OnPageFreeThread : Reclaimed(p)
  /\ \A t \in Threads :
       pc[t].st = "reclaim_cas" => Reclaimed(pc[t].page) /\ pc[t].page \notin OnPageFreeThread

\* A thread is between its exchange of page p's thread_free word and the end
\* of its rpfree.
Pushing(p) ==
  \E t \in Threads : pc[t].st \in {"push_rest", "reclaim_cas"} /\ pc[t].page = p
\* A full page whose blocks were all freed by other threads is on the
\* page_free_thread stack of its heap and page type, or, once that stack was
\* drained, on the page_free list.
FreedIsStacked ==
  \A p \in DOMAIN page :
    (page[p].is_full # 0 /\ page[p].thread_free.cnt = page[p].block_count /\ ~ Pushing(p)) =>
      p \in PageChain(heap[page[p].heap].page_free_thread[page[p].page_type], Cardinality(PageAddrs))
              \cup PageChain(heap[page[p].heap].page_free[page[p].page_type], Cardinality(PageAddrs))
\* The exchange of line 1264 that succeeds takes the stack: its head is made
\* the available page of the requested class and returns its first block, the
\* rest of the chain is the page_free list, and no span is mapped or touched.
DrainReuses ==
  \A t \in Threads :
    (pc[t].st = "drain_cas" /\ pc'[t].st # "drain_cas") =>
      LET h == tls[t]
          size_class == LoopClass(pc[t].size)
          page_type == get_page_type(size_class)
          p == heap[h].page_free_thread[page_type]
      IN /\ p # NULL
         /\ heap'[h].page_free_thread[page_type] = NULL
         /\ Get(heap'[h].page_available, size_class) = p
         /\ page'[p].size_class = size_class
         /\ page'[p].block_size = ClassBlockSize(size_class)
         /\ page'[p].block_count = ClassBlockCount(size_class)
         /\ page'[p].block_initialized = 1 /\ page'[p].block_used = 1
         /\ page'[p].local_free = NULL /\ page'[p].local_free_count = 0
         /\ page'[p].thread_free = TF0
         /\ page'[p].is_decommitted = 0 /\ page'[p].is_full = 0 /\ page'[p].is_free = 0
         /\ ev'.r = page_block(St(t, 0), p, 0)
         /\ span' = span /\ maps_left' = maps_left
         /\ PageChain(p, Cardinality(PageAddrs)) \ {p}
              = ChainOf(page', heap'[h].page_free[page_type], Cardinality(PageAddrs))
\* A page is taken from a span only when the page_free_thread stack is empty.
NewPageLast ==
  (ev'.op = "malloc" /\ ev'.pg = "span" /\ ev' # ev /\ tls[ev'.t] # global_heap_default) =>
    heap[tls[ev'.t]].page_free_thread[get_page_type(LoopClass(ev'.arg.size))] = NULL

\* C22: a full page whose blocks another thread freed is on the
\* page_free_thread stack of its heap, and the next page acquisition of the
\* owner that finds no available and no free page drains the stack and reuses
\* its head page, set up anew for the requested class, instead of taking a new
\* page or mapping a span; every page of the drained chain is kept, also when
\* a push changes the stack between the load and the exchange of the drain.
C22_DrainReuse == [] FreedIsStacked /\ [][DrainReuses /\ NewPageLast]_vars
\* A drain returned the head of a chain of two pages.
C22_Witness ==
  /\ ev.op = "malloc" /\ ev.pg = "free_thread"
  /\ \E h \in HeapIds : heap[h].page_free[PAGE_SMALL] # NULL

\* A push changed the stack between the load and the exchange of a drain.
DrainRaced ==
  \E t \in Threads :
    /\ pc[t].st = "drain_cas"
    /\ pc[t].seen # heap[tls[t]].page_free_thread[get_page_type(LoopClass(pc[t].size))]

(***************************************************************************)
(* Properties of SpecStarve                                                *)
(***************************************************************************)
\* Block i of the filled page was freed by a thread that does not own it and
\* is on the thread-free list of the page.
FreedByOther(i) == FilledPage \in DOMAIN page /\ FilledBlock(i) \in page[FilledPage].pushed
\* C23: a block that a thread which does not own it freed is returned in the
\* end by an rpmalloc of the owner, which goes on requesting blocks of the
\* size class, whether the page was full or not when the block was freed, and
\* also when the other blocks of the page are never freed.
C23_Returned ==
  \A i \in 0 .. (MaxBlocksLoops - 1) : FreedByOther(i) ~> (FilledBlock(i) \in live)

\* The part of it that holds: a block freed while its page is not full is
\* returned in the end.
ReturnedIfNotFull ==
  \A i \in 0 .. (MaxBlocksLoops - 1) :
    (FreedByOther(i) /\ page[FilledPage].is_full = 0) ~> (FilledBlock(i) \in live)

(***************************************************************************)
(* The counters of a page                                                  *)
(***************************************************************************)
\* The pages that hold blocks of a size class: set up by
\* heap_make_free_page_available and not back on a list of free pages
PagesInUse ==
  { p \in DOMAIN page : page[p].block_count > 0 /\ page[p].is_free = 0
                        /\ span[SlotOf(p)].mapped /\ span[SlotOf(p)].page_type <= PAGE_LARGE }
\* The length of the local free list of page p
LocalFreeLength(p) == Cardinality(Reach(bnext, page[p].local_free, ListBound))

\* C24: for each page in use, between operations, block_used + |local_free| +
\* |thread_free| + (block_count - block_initialized) = block_count, with
\* |local_free| the length of the local free list and |thread_free| the count
\* of the thread-free word.
C24_Counters ==
  (\A t \in Threads : pc[t].st = "idle") =>
    \A p \in PagesInUse :
      page[p].block_used + LocalFreeLength(p) + page[p].thread_free.cnt
        + (page[p].block_count - page[p].block_initialized) = page[p].block_count

\* What the code keeps instead: the blocks on the thread-free list stay
\* counted in block_used until the owner adopts the list, so that block_used
\* + |local_free| + (block_count - block_initialized) = block_count and
\* |thread_free| <= block_used. It holds under SpecLoops, SpecReclaim and
\* SpecSeq; under Spec the unsynchronised free of a thread that finalized
\* breaks it too.
CountersAdopted ==
  (\A t \in Threads : pc[t].st = "idle") =>
    \A p \in PagesInUse :
      /\ page[p].block_used + LocalFreeLength(p)
           + (page[p].block_count - page[p].block_initialized) = page[p].block_count
      /\ page[p].local_free_count = LocalFreeLength(p)
      /\ page[p].thread_free.cnt <= page[p].block_used

\* The sum of block_used over the pages of S
RECURSIVE BlockUsedSum(_)
BlockUsedSum(S) ==
  IF S = {} THEN 0
  ELSE LET p == CHOOSE x \in S : TRUE IN page[p].block_used + BlockUsedSum(S \ {p})
\* The blocks allocated from heap h and not yet freed
Outstanding(h) ==
  { ptr \in live : /\ span[SlotOf(ptr)].page_type <= PAGE_LARGE
                   /\ page[PageOf(ptr)].heap = h }

\* C25: between operations, the sum of block_used over the pages of a heap is
\* the number of blocks allocated from that heap and not yet freed.
C25_Outstanding ==
  (\A t \in Threads : pc[t].st = "idle") =>
    \A h \in HeapIds :
      BlockUsedSum({p \in PagesInUse : page[p].heap = h}) = Cardinality(Outstanding(h))

(***************************************************************************)
(* The lists of a heap                                                     *)
(***************************************************************************)
\* The pages on page_available[c] of heap h
Available(h, c) == ChainOf(page, Get(heap[h].page_available, c), Cardinality(PageAddrs))
\* The pages on a page_available list
OnAvailable == UNION { Available(h, c) : h \in DOMAIN heap, c \in 0 .. SIZE_CLASS_COUNT }

\* C26: between operations, a page marked is_full or is_free is on no
\* page_available list, and every page on page_available[c] of a heap has
\* size class c, belongs to the heap and is neither full nor free.
C26_Available ==
  (\A t \in Threads : pc[t].st = "idle") =>
    /\ \A p \in DOMAIN page :
         (page[p].is_full # 0 \/ page[p].is_free # 0) => p \notin OnAvailable
    /\ \A h \in DOMAIN heap : \A c \in DOMAIN heap[h].page_available :
         \A p \in Available(h, c) :
           /\ page[p].size_class = c
           /\ page[p].heap = h
           /\ page[p].is_full = 0 /\ page[p].is_free = 0

\* The pages that were set up for a size class
SizeClassPages ==
  { p \in DOMAIN page : page[p].block_count > 0
                        /\ span[SlotOf(p)].mapped /\ span[SlotOf(p)].page_type <= PAGE_LARGE }

\* C27: for every page, after every operation, block_initialized <=
\* block_count and 0 <= block_used <= block_count, and a page of a size class
\* is marked full exactly when block_used = block_count.
C27_Full ==
  (\A t \in Threads : pc[t].st = "idle") =>
    \A p \in SizeClassPages :
      /\ page[p].block_initialized <= page[p].block_count
      /\ page[p].block_used >= 0
      /\ page[p].block_used <= page[p].block_count
      /\ (page[p].is_full # 0) <=> (page[p].block_used = page[p].block_count)

\* Every thread is idle after a free, and a page of a size class whose blocks
\* were all handed out has left the full state with a block still in use.
C27_Witness ==
  /\ \A t \in Threads : pc[t].st = "idle"
  /\ ev.op = "free"
  /\ \E p \in SizeClassPages :
       /\ page[p].is_full = 0
       /\ page[p].block_initialized = page[p].block_count
       /\ page[p].block_used > 0
       /\ page[p].block_used < page[p].block_count

(***************************************************************************)
(* The spans of a heap                                                     *)
(***************************************************************************)
\* The step maps the span of address slot k for pages of a size class.
MapsSpan(k) ==
  /\ ~ span[k].mapped
  /\ span'[k].mapped
  /\ span'[k].page_type <= PAGE_LARGE
  /\ page'[k * SPAN_SIZE].heap # NULL

\* Heap h has a page or a span that serves the size class.
Serves(h, size_class) ==
  LET page_type == get_page_type(size_class)
  IN \/ Get(heap[h].page_available, size_class) # NULL
     \/ heap[h].page_free[page_type] # NULL
     \/ heap[h].page_free_thread[page_type] # NULL
     \/ heap[h].span_partial[page_type] # NULL

\* C28: an allocation maps a new span only when the heap that serves it (the
\* heap the span is given to, also when the thread took it from the heap
\* queue in that allocation) has no available page of the class, no page on
\* page_free or page_free_thread of the page type and no partial span of the
\* page type.
C28_MapsLast ==
  [][\A k \in SpanSlots :
       MapsSpan(k) /\ ~ ev'.crash
         => ~ Serves(page'[k * SPAN_SIZE].heap, LoopClass(ev'.arg.size))]_vars

\* An allocation of a thread that has a heap of its own maps a span.
MapsForOwnHeap ==
  [][\A k \in SpanSlots :
       MapsSpan(k) /\ ~ ev'.crash /\ ev'.t # 0 /\ tls[ev'.t] # global_heap_default
         => ~ Serves(page'[k * SPAN_SIZE].heap, LoopClass(ev'.arg.size))]_vars

\* The spans on heap h's span_used list of the page type, at most n of them
RECURSIVE SpanChain(_, _)
SpanChain(sp, n) ==
  IF sp = NULL \/ n = 0 THEN {} ELSE {sp} \cup SpanChain(span[SlotOf(sp)].next, n - 1)

SpanUsed(h, page_type) == SpanChain(heap[h].span_used[page_type], MaxSpans)

\* The spans that were mapped for pages of a size class
ClassSpans ==
  { k * SPAN_SIZE : k \in { j \in SpanSlots : /\ span[j].mapped
                                              /\ span[j].page_type <= PAGE_LARGE
                                              /\ span[j].page_count > 0
                                              /\ page[j * SPAN_SIZE].heap # NULL } }

\* C29: every mapped span of a size class is reachable from its heap: while it
\* has uninitialized pages it is the heap's span_partial entry of its page
\* type (no other span took the entry), and afterwards it is on the heap's
\* span_used list of its page type.
C29_Reachable ==
  \A sp \in ClassSpans :
    LET k == SlotOf(sp)
        h == page[sp].heap
        ty == span[k].page_type
    IN IF span[k].page_initialized < span[k].page_count
         THEN heap[h].span_partial[ty] = sp
         ELSE sp \in SpanUsed(h, ty)

(***************************************************************************)
(* Properties of SpecInPlace                                               *)
(***************************************************************************)
\* The first address past the region the OS reserved for the span of ptr
EndOfMapping(ptr) ==
  span[SlotOf(block_get_span(ptr))].raw + span[SlotOf(block_get_span(ptr))].rlen

\* What rpmalloc_usable_size reports for every huge block lies in its region.
UsableInside ==
  \A p \in live :
    IsHuge(p) => p + rpmalloc_usable_size(St(1, 0), p) <= EndOfMapping(p)

\* The last call was a realloc of a huge block that kept the block in place.
KeptInPlace ==
  /\ ev.op = "realloc" /\ ev.r # NULL /\ ev.r = ev.arg.ptr
  /\ ev.r \in live /\ IsHuge(ev.r)

\* The size a realloc in place granted lies in the block's region.
GrantedInside == KeptInPlace => ev.r + ev.arg.size <= EndOfMapping(ev.r)

\* C30: for a huge block at p, p + usable_size(p) does not exceed the end of
\* the region mapped for the block, and when realloc(p, new_size) keeps the
\* block in place p + new_size does not exceed it, wherever the OS placed the
\* region.
C30_Inside == UsableInside /\ GrantedInside

\* With the region on the span alignment, the usable size lies inside.
UsableInsideUnpadded ==
  \A p \in live :
    (IsHuge(p) /\ span[SlotOf(p)].offset = 0)
      => p + rpmalloc_usable_size(St(1, 0), p) <= EndOfMapping(p)

\* A realloc in place to at most what lies behind the pointer stays inside.
GrantedInsideFits ==
  (KeptInPlace /\ ev.arg.size <= HugeMapped - SPAN_HEADER_SIZE - os_page_size)
    => ev.r + ev.arg.size <= EndOfMapping(ev.r)

(***************************************************************************)
(* Properties of SpecShift                                                 *)
(***************************************************************************)
\* The first address of the block that holds ptr: of a size class block by
\* its index in the page, of a huge block behind the span header
OriginOf(ptr) ==
  LET sp == block_get_span(ptr)
      p == PageOf(ptr)
  IN IF span[SlotOf(sp)].page_type <= PAGE_LARGE
       THEN page_block_start(p)
              + ((ptr - page_block_start(p)) \div page[p].block_size) * page[p].block_size
       ELSE sp + SPAN_HEADER_SIZE

\* The first address past the block that holds ptr
EndOf(ptr) ==
  IF span[SlotOf(block_get_span(ptr))].page_type <= PAGE_LARGE
    THEN OriginOf(ptr) + page[PageOf(ptr)].block_size
    ELSE EndOfMapping(ptr)

\* The header that holds the flags of the block of ptr: of its page, for a
\* huge block of its span
HeaderOf(ptr) ==
  IF span[SlotOf(block_get_span(ptr))].page_type <= PAGE_LARGE
    THEN PageOf(ptr) ELSE block_get_span(ptr)

\* The last call was an aligned allocation that returned a pointer shifted
\* forward from the origin of its block.
Shifted ==
  /\ ev.op \in {"aligned_alloc", "aligned_calloc"}
  /\ ev.r # NULL /\ ~ ev.crash
  /\ ev.r # OriginOf(ev.r)

\* The shift is smaller than the alignment and the size bytes lie in the block.
ShiftInside ==
  Shifted => /\ ev.r - OriginOf(ev.r) < ev.arg.align
             /\ ev.r + ev.arg.size <= EndOf(ev.r)

\* The flag is set in the header of the block's page, or span.
FlagInHeader ==
  Shifted => /\ page[HeaderOf(ev.r)].has_aligned_block = 1
             /\ ev.flag = HeaderOf(ev.r) + HAS_ALIGNED_BLOCK_OFFSET

\* The write of the flag touched no byte of the returned region.
FlagOutside ==
  Shifted => ~ (ev.flag >= ev.r /\ ev.flag < ev.r + ev.arg.size)

\* C31: when an aligned allocation returns a pointer shifted forward from the
\* block origin, the shift is smaller than the alignment, the size bytes lie
\* inside the block, has_aligned_block is set in the header of the block's
\* page (of its span, for a huge block), and setting it wrote no byte of the
\* returned region.
C31_Shifted == ShiftInside /\ FlagInHeader /\ FlagOutside

\* The same for the blocks of the size classes only
ShiftedInClass ==
  (Shifted /\ ~ IsHuge(ev.r)) => (ShiftInside /\ FlagInHeader /\ FlagOutside)

(***************************************************************************)
(* Properties of SpecFreed                                                 *)
(***************************************************************************)
\* Address b is the origin of a block of its page.
IsOrigin(b) ==
  /\ PageOf(b) \in SizeClassPages
  /\ (b - page_block_start(PageOf(b))) % page[PageOf(b)].block_size = 0

\* The entries of the local free lists of the pages, of the free lists of the
\* heaps and of the thread free chains of the pages
LocalFreeEntries ==
  UNION { Reach(bnext, page[p].local_free, ListBound) : p \in SizeClassPages }
HeapFreeEntries ==
  UNION { UNION { Reach(bnext, heap[h].local_free[c], ListBound) : c \in DOMAIN heap[h].local_free }
          : h \in HeapIds \cup {FALLBACK} }
ThreadFreeEntries ==
  UNION { Reach(bnext, ThreadFreeHead(p), ListBound) : p \in SizeClassPages }
ListEntries == LocalFreeEntries \cup HeapFreeEntries \cup ThreadFreeEntries

OriginsListed == \A b \in ListEntries : IsOrigin(b)

\* The step is rpfree of a pointer into a page of a size class: the origin of
\* its block, and nothing else, joins the free lists; the owner's free puts it
\* at the head of the page's local free list and lowers block_used by one,
\* the free of another thread puts it at the head of the thread free chain
\* and raises its count by one.
FreesOrigin ==
  \A ptr \in live :
    (ev'.op = "free" /\ ev'.arg.ptr = ptr /\ ~ IsHuge(ptr)) =>
      LET p == PageOf(ptr)
          o == OriginOf(ptr)
      IN /\ o \notin ListEntries
         /\ ListEntries' = ListEntries \cup {o}
         /\ IF ev'.t = page[p].owner_thread
              THEN /\ page'[p].local_free = o
                   /\ page'[p].local_free_count = page[p].local_free_count + 1
                   /\ page'[p].block_used = page[p].block_used - 1
                   /\ page'[p].thread_free = page[p].thread_free
              ELSE /\ ThreadFreeHead(p)' = o
                   /\ page'[p].thread_free.cnt = page[p].thread_free.cnt + 1
                   /\ page'[p].block_used = page[p].block_used
                   /\ page'[p].local_free = page[p].local_free

\* C32: freeing a pointer an aligned allocation returned, by the owning thread
\* or by another thread, puts the origin of the block on the free list and
\* accounts for exactly one block, and every entry of every local free list,
\* heap free list and thread free chain is a block origin.
C32_Origins == [] OriginsListed /\ [][FreesOrigin]_vars

\* A shifted pointer was freed by a thread that does not own the page, into a
\* chain that held a block already.
C32_Witness ==
  /\ ev.op = "free" /\ ev.t = 2
  /\ ev.arg.ptr # NULL
  /\ \E p \in SizeClassPages :
       /\ page[p].has_aligned_block = 1
       /\ page[p].thread_free.cnt > 1
       /\ ThreadFreeHead(p) # ev.arg.ptr
       /\ ThreadFreeHead(p) < ev.arg.ptr
       /\ ev.arg.ptr < ThreadFreeHead(p) + page[p].block_size

(***************************************************************************)
(* Decommitted pages                                                       *)
(***************************************************************************)
\* The pointers the program holds into page p
LiveIn(p) ==
  { b \in live : /\ span[SlotOf(block_get_span(b))].mapped
                 /\ span[SlotOf(block_get_span(b))].page_type <= PAGE_LARGE
                 /\ PageOf(b) = p }

\* C33: in every reachable state no live block lies in a page whose
\* is_decommitted flag is set, whether the owner or other threads emptied the
\* page.
C33_Committed ==
  \A p \in SizeClassPages : page[p].is_decommitted # 0 => LiveIn(p) = {}

\* The pages on page_free of the page type of heap h
PageFree(h, ty) == PageChain(heap[h].page_free[ty], Cardinality(PageAddrs))

\* Every page of a page_free list other than its head is decommitted.
OneWarmPage ==
  \A h \in DOMAIN heap : \A ty \in PageTypes :
    \A p \in PageFree(h, ty) \ {heap[h].page_free[ty]} : page[p].is_decommitted # 0

\* A page that becomes free by an rpfree is the new head of page_free of its
\* heap and page type, in front of the previous head, which is decommitted.
FreedToHead ==
  \A p \in PageAddrs :
    (ev'.op = "free" /\ page[p].is_free = 0 /\ page'[p].is_free # 0) =>
      LET h == page[p].heap
          ty == page[p].page_type
          head == heap[h].page_free[ty]
      IN /\ heap'[h].page_free[ty] = p
         /\ page'[p].next = head
         /\ head # NULL => page'[head].is_decommitted # 0

\* C34: on each heap's page_free list of a page type every page other than
\* the head is decommitted; a page that becomes free is pushed at the head and
\* the previous head is decommitted.
C34_OneWarmPage == [] OneWarmPage /\ [][FreedToHead]_vars

\* A page became free in front of another free page.
C34_Witness ==
  /\ ev.op = "free"
  /\ \E h \in DOMAIN heap : \E ty \in PageTypes :
       /\ heap[h].page_free[ty] # NULL
       /\ PageOf(ev.arg.ptr) = heap[h].page_free[ty]
       /\ page[heap[h].page_free[ty]].is_free # 0
       /\ page[heap[h].page_free[ty]].is_decommitted = 0
       /\ page[heap[h].page_free[ty]].next # NULL

(***************************************************************************)
(* The pages of a span                                                     *)
(***************************************************************************)
\* page_initialized of the span of slot k; an unmapped span has no page.
Initialized(k) == IF span[k].mapped THEN span[k].page_initialized ELSE 0

\* No span of a size class has more initialized pages than pages.
InitializedInCount ==
  \A sp \in ClassSpans : span[SlotOf(sp)].page_initialized <= span[SlotOf(sp)].page_count

\* page_initialized of a mapped span of a size class does not fall.
InitializedRises ==
  \A k \in SpanSlots :
    (span[k].mapped /\ span'[k].mapped /\ span'[k].page_type <= PAGE_LARGE)
      => span'[k].page_initialized >= Initialized(k)

\* A step that changes page_initialized hands out the one page of the old
\* index: the next step that hands out a page of the span takes a later one.
HandedOutOnce ==
  \A k \in SpanSlots :
    (span'[k].mapped /\ span'[k].page_type <= PAGE_LARGE /\ ~ ev'.crash
       /\ span'[k].page_initialized # Initialized(k))
      => /\ span'[k].page_initialized = Initialized(k) + 1
         /\ ev'.pg = "span"
         /\ LET p == k * SPAN_SIZE + span'[k].page_size * Initialized(k)
            IN p < ev'.r /\ ev'.r < p + span'[k].page_size

\* A span of a size class is the span_partial entry of its heap and page type
\* exactly while it has uninitialized pages; a full span is on span_used.
PartialWhileNotFull ==
  \A sp \in ClassSpans :
    LET k == SlotOf(sp)
        h == page[sp].heap
        ty == span[k].page_type
    IN /\ (heap[h].span_partial[ty] = sp) <=> (span[k].page_initialized < span[k].page_count)
       /\ span[k].page_initialized = span[k].page_count => sp \in SpanUsed(h, ty)

\* C35: for every span of a size class page_initialized only rises and never
\* passes page_count, every page index is handed out at most once, and the
\* span is the partial span of its heap and page type exactly while
\* page_initialized < page_count; a span whose last page was initialized is
\* on the used list and not the partial entry.
C35_Partial ==
  /\ [] (InitializedInCount /\ PartialWhileNotFull)
  /\ [][InitializedRises /\ HandedOutOnce]_vars

\* The same without the relation to span_partial
C35_Counted == [] InitializedInCount /\ [][InitializedRises /\ HandedOutOnce]_vars

(***************************************************************************)
(* From an address to its span and page                                    *)
(***************************************************************************)
\* The pages span_allocate_page carved from the spans of the size classes,
\* each with its span
Carved ==
  { c \in ClassSpans \X PageAddrs :
      \E i \in 0 .. (span[SlotOf(c[1])].page_initialized - 1) :
        c[2] = c[1] + i * span[SlotOf(c[1])].page_size }

\* The carved pages with a block that holds ptr
PagesOf(ptr) ==
  { c \in Carved :
      /\ page_block_start(c[2]) <= ptr
      /\ ptr < page_block_start(c[2]) + page[c[2]].block_size * page[c[2]].block_count }

\* The first, the given and the last address of the block of page p that holds ptr
Inside(p, ptr) ==
  LET first == ptr - ((ptr - page_block_start(p)) % page[p].block_size)
  IN {first, ptr, first + page[p].block_size - 1}

\* Masking and shifting an address of a live block of a size class give the
\* span and the page that hold the block.
SpanAndPageFound ==
  \A ptr \in live :
    (span[ptr \div SPAN_SIZE].mapped /\ span[ptr \div SPAN_SIZE].page_type <= PAGE_LARGE) =>
      /\ PagesOf(ptr) # {}
      /\ \A c \in PagesOf(ptr) : \A a \in Inside(c[2], ptr) :
           /\ block_get_span(a) = c[1]
           /\ span_get_page_from_block(St(1, 0), block_get_span(a), a) = c[2]

\* The blocks of a page that was set up end in the page.
BlocksInPage ==
  \A c \in Carved :
    PAGE_HEADER_SIZE + page[c[2]].block_size * page[c[2]].block_count
      <= span[SlotOf(c[1])].page_size

\* The same for the block counts of the table, of all classes
TableInPage ==
  \A c \in 0 .. (SIZE_CLASS_COUNT - 1) :
    PAGE_HEADER_SIZE + ClassBlockSize(c) * ClassBlockCountFull(c)
      <= PageSizeOfType(get_page_type(c))

\* C36: for every live block of a size class and every address inside it (a
\* shifted pointer too), the address without its low 28 bits is the span the
\* block's page was carved from, and the offset in the span shifted by the
\* span's page size shift gives the page that holds the block; the blocks of
\* a page end at or before the end of the page, for the block counts of all
\* 73 classes.
C36_Found == SpanAndPageFound /\ BlocksInPage /\ TableInPage

\* A live block lies in a page of its span that is not the span's first.
C36_Witness ==
  \E ptr \in live : \E c \in PagesOf(ptr) : c[2] # c[1] /\ ptr # page_block_start(c[2])

(***************************************************************************)
(* Properties of SpecClass                                                 *)
(***************************************************************************)
\* The last call was an rpmalloc that returned a block.
Allocated == ev.op = "malloc" /\ ev.r # NULL /\ ~ ev.crash

\* The size class of the page the allocator took the block at ptr from
ClassUsed(ptr) == page[PageOf(ptr)].size_class

\* Class c has the smallest block size that holds n bytes.
SmallestFor(c, n) ==
  /\ c < SIZE_CLASS_COUNT
  /\ ClassBlockSize(c) >= n
  /\ \A d \in 0 .. (SIZE_CLASS_COUNT - 1) :
       ClassBlockSize(d) >= n => ClassBlockSize(d) >= ClassBlockSize(c)

\* ceil(n / SMALL_GRANULARITY), at least 1
LinearClass(n) == Max((n + SMALL_GRANULARITY - 1) \div SMALL_GRANULARITY, 1)

\* The block of the last rpmalloc is huge exactly for a size above
\* LARGE_BLOCK_SIZE_LIMIT, which no class holds.
HugeAboveLimit ==
  Allocated =>
    /\ IsHuge(ev.r) <=> ev.arg.size > LARGE_BLOCK_SIZE_LIMIT
    /\ IsHuge(ev.r) <=> ~ \E c \in 0 .. (SIZE_CLASS_COUNT - 1) : ClassBlockSize(c) >= ev.arg.size

\* The block of the last rpmalloc comes from a page of the smallest class
\* that holds the size.
SmallestUsed ==
  (Allocated /\ ~ IsHuge(ev.r)) => SmallestFor(ClassUsed(ev.r), ev.arg.size)

\* Up to 16 * SMALL_GRANULARITY bytes the class is the linear one, and both
\* computations give it.
LinearUsed ==
  (Allocated /\ ev.arg.size <= 16 * SMALL_GRANULARITY) =>
    /\ ClassUsed(ev.r) = LinearClass(ev.arg.size)
    /\ get_size_class_tiny(ev.arg.size) = get_size_class(ev.arg.size)

\* C37: the block of an allocation of n bytes comes from the smallest class
\* below 73 whose block size is at least n, which for n <= 512 is class
\* max(ceil(n / 32), 1), computed alike by the tiny and the generic path; the
\* request is served as huge exactly when n > 8 MiB, when no class holds it.
C37_Class == HugeAboveLimit /\ SmallestUsed /\ LinearUsed

\* The same for the requests of at least one byte
C37_ClassOfBytes == ev.arg.size # 0 => (HugeAboveLimit /\ SmallestUsed /\ LinearUsed)

\* The sizes at the border of every class of the table
BorderSizes ==
  UNION { {ClassBlockSize(c) - 1, ClassBlockSize(c), ClassBlockSize(c) + 1} :
          c \in 0 .. (SIZE_CLASS_COUNT - 1) }

\* At the border of every class both paths compute the smallest class that
\* holds the size, a class past the table for the sizes no class holds.
BordersClassed ==
  \A n \in BorderSizes :
    /\ n <= LARGE_BLOCK_SIZE_LIMIT => SmallestFor(LoopClass(n), n)
    /\ n > LARGE_BLOCK_SIZE_LIMIT => LoopClass(n) >= SIZE_CLASS_COUNT
    /\ n <= 16 * SMALL_GRANULARITY =>
         /\ LoopClass(n) = LinearClass(n)
         /\ get_size_class_tiny(n) = get_size_class(n)

=============================================================================
